---------------------------- MODULE Spec2Model ----------------------------
(***************************************************************************)
(* State-machine model of the racing game: the track editor (map.js), the  *)
(* AI policy channel, the frame loop and the lap state machine (game.js).  *)
(*                                                                         *)
(* Units.  Times are milliseconds.  A lap time, (now - startTime) / 1000.0  *)
(* seconds in the code, is kept in thousandths of a second, which is exact *)
(* for every whole number of milliseconds.  Thrust and angular velocity    *)
(* are kept as integers: throttle and steering are in tenths,              *)
(* ACCELERATION_FORCE and ANGULAR_VELOCITY in hundredths, so an action     *)
(* component is in thousandths.  World coordinates are pixels.             *)
(***************************************************************************)
EXTENDS Integers, Sequences, FiniteSets, Bags, TLC

\* ------------------------------------------------------------------ bounds
MaxTime == 17500

MaxSensors == 2

MaxRestarts == 1

MaxReads == 1

MaxCrossings == 4

MaxInbox == 2

MaxAudioTime == 1500

MaxNotes == 2

\* ------------------------------------------------------- program constants
PIECE_WIDTH == 100

WALL_THICKNESS == 10

GRID_WIDTH == 12

GRID_HEIGHT == 12

ACCELERATION_FORCE == 1

ANGULAR_VELOCITY == 5

COOLDOWN_MS == 5000

MS_PER_SECOND == 1000

THOUSANDTHS == 1000

\* --------------------------------------------------------- JavaScript data
\* A JavaScript value as JSON can carry it: null, a number, a string or an
\* array.  All records have the same fields so that any two compare.
JNull == [t |-> "null", s |-> "", n |-> 0, a |-> <<>>]

JStr(str) == [t |-> "str", s |-> str, n |-> 0, a |-> <<>>]

JNum(num) == [t |-> "num", s |-> "", n |-> num, a |-> <<>>]

JArr(elems) == [t |-> "arr", s |-> "", n |-> 0, a |-> elems]

\* JavaScript truthiness, as used by `if (pieceType)` and `!gridData`.
Truthy(v) ==
    CASE v.t = "null" -> FALSE
      [] v.t = "str" -> v.s # ""
      [] v.t = "num" -> v.n # 0
      [] OTHER -> TRUE

\* v.length for arrays and strings; undefined (here -1) otherwise.
JsLength(v) ==
    CASE v.t = "arr" -> Len(v.a)
      [] v.t = "str" -> Len(v.s)
      [] OTHER -> -1

\* ----------------------------------------------------------- JSON as text
\* JSON text is a sequence of tokens.
Tok(kind, str, num) == [k |-> kind, s |-> str, n |-> num]

RECURSIVE StringifyElems(_, _)
RECURSIVE JSONstringify(_)
JSONstringify(v) ==
    CASE v.t = "null" -> << Tok("null", "", 0) >>
      [] v.t = "str" -> << Tok("str", v.s, 0) >>
      [] v.t = "num" -> << Tok("num", "", v.n) >>
      [] OTHER -> << Tok("lb", "", 0) >> \o StringifyElems(v.a, 1) \o << Tok("rb", "", 0) >>

StringifyElems(elems, i) ==
    IF i > Len(elems) THEN << >>
    ELSE (IF i > 1 THEN << Tok("comma", "", 0) >> ELSE << >>)
         \o JSONstringify(elems[i]) \o StringifyElems(elems, i + 1)

ParseFail == [ok |-> FALSE, val |-> JNull, next |-> 0]

RECURSIVE ParseValue(_, _)
RECURSIVE ParseElems(_, _, _)
\* One JSON value starting at token i: the value and the index after it.
ParseValue(toks, i) ==
    IF i > Len(toks) THEN ParseFail
    ELSE CASE toks[i].k = "null" -> [ok |-> TRUE, val |-> JNull, next |-> i + 1]
           [] toks[i].k = "str" -> [ok |-> TRUE, val |-> JStr(toks[i].s), next |-> i + 1]
           [] toks[i].k = "num" -> [ok |-> TRUE, val |-> JNum(toks[i].n), next |-> i + 1]
           [] toks[i].k = "lb" ->
                IF i + 1 <= Len(toks) /\ toks[i + 1].k = "rb"
                THEN [ok |-> TRUE, val |-> JArr(<< >>), next |-> i + 2]
                ELSE ParseElems(toks, i + 1, << >>)
           [] OTHER -> ParseFail

ParseElems(toks, i, acc) ==
    LET r == ParseValue(toks, i) IN
    IF ~r.ok \/ r.next > Len(toks) THEN ParseFail
    ELSE IF toks[r.next].k = "comma" THEN ParseElems(toks, r.next + 1, Append(acc, r.val))
    ELSE IF toks[r.next].k = "rb"
         THEN [ok |-> TRUE, val |-> JArr(Append(acc, r.val)), next |-> r.next + 1]
    ELSE ParseFail

\* JSON.parse: ok is FALSE where JSON.parse throws.
JSONparse(toks) ==
    LET r == ParseValue(toks, 1) IN
    IF r.ok /\ r.next = Len(toks) + 1 THEN [ok |-> TRUE, val |-> r.val]
    ELSE [ok |-> FALSE, val |-> JNull]

\* localStorage slot 'customMap': absent, or a text.
NoItem == [present |-> FALSE, text |-> << >>]

Item(toks) == [present |-> TRUE, text |-> toks]

\* ------------------------------------------------------------ track editor
VARIABLES mapGrid, geomWalls, wallBodies, finishLine, world, storage, reads, lastOp

trackVars == << mapGrid, geomWalls, wallBodies, finishLine, world, storage, reads, lastOp >>

\* A static Matter body (a wall, or the finish-line sensor).
Body(label, x, y, w, h, sensor) ==
    [label |-> label, x |-> x, y |-> y, w |-> w, h |-> h, isSensor |-> sensor]

\* this.finishLine = null
NoBody == Body("none", 0, 0, 0, 0, FALSE)

\* Phaser.Geom.Rectangle(left, top, width, height)
Rect(left, top, w, h) == [x |-> left, y |-> top, width |-> w, height |-> h]

\* The editor's fields together with the physics world and the storage slot,
\* threaded through the editor's methods.
Ed == [mapGrid |-> mapGrid, geomWalls |-> geomWalls, wallBodies |-> wallBodies,
       finishLine |-> finishLine, world |-> world, storage |-> storage]

Put(ed) ==
    /\ mapGrid' = ed.mapGrid
    /\ geomWalls' = ed.geomWalls
    /\ wallBodies' = ed.wallBodies
    /\ finishLine' = ed.finishLine
    /\ world' = ed.world
    /\ storage' = ed.storage

\* Array(GRID_HEIGHT).fill(null).map(() => Array(GRID_WIDTH).fill(null))
EmptyGrid == JArr([y \in 1..GRID_HEIGHT |-> JArr([x \in 1..GRID_WIDTH |-> JNull])])

\* grid[y][x] with 0-based indices; a missing element reads as undefined,
\* which is falsy like null.
CellAt(grid, y, x) ==
    IF grid.t = "arr" /\ y + 1 \in 1..Len(grid.a)
       /\ grid.a[y + 1].t = "arr" /\ x + 1 \in 1..Len(grid.a[y + 1].a)
    THEN grid.a[y + 1].a[x + 1]
    ELSE JNull

RECURSIVE SeqToBag(_)
SeqToBag(bodies) ==
    IF bodies = << >> THEN EmptyBag
    ELSE SetToBag({Head(bodies)}) (+) SeqToBag(Tail(bodies))

addWall(ed, x, y, w, h) ==
    LET body == Body("wall", x, y, w, h, FALSE)
        geomRect == Rect(x - w \div 2, y - h \div 2, w, h)
    IN [ed EXCEPT !.world = @ (+) SetToBag({body}),
                  !.wallBodies = Append(@, body),
                  !.geomWalls = Append(@, geomRect)]

\* scene.matter.add.rectangle(x, y, w, h, {isSensor: true, label: 'finishLine'})
addSensor(ed, x, y, w, h) ==
    LET body == Body("finishLine", x, y, w, h, TRUE)
    IN [ed EXCEPT !.world = @ (+) SetToBag({body}), !.finishLine = body]

topWall_OnEdge(x, y) == [x |-> x, y |-> y - PIECE_WIDTH \div 2,
                         w |-> PIECE_WIDTH, h |-> WALL_THICKNESS]

topWall(x, y) == [x |-> x, y |-> y - PIECE_WIDTH \div 2 + WALL_THICKNESS \div 2,
                  w |-> PIECE_WIDTH, h |-> WALL_THICKNESS]

bottomWall(x, y) == [x |-> x, y |-> y + PIECE_WIDTH \div 2 - WALL_THICKNESS \div 2,
                     w |-> PIECE_WIDTH, h |-> WALL_THICKNESS]

leftWall(x, y) == [x |-> x - PIECE_WIDTH \div 2 + WALL_THICKNESS \div 2, y |-> y,
                   w |-> WALL_THICKNESS, h |-> PIECE_WIDTH]

rightWall(x, y) == [x |-> x + PIECE_WIDTH \div 2 - WALL_THICKNESS \div 2, y |-> y,
                    w |-> WALL_THICKNESS, h |-> PIECE_WIDTH]

addWallOf(ed, wall) == addWall(ed, wall.x, wall.y, wall.w, wall.h)

drawPiece(ed, pieceType, x, y) ==
    LET kind == IF pieceType.t = "str" THEN pieceType.s ELSE ""
        T == topWall(x, y)
        B == bottomWall(x, y)
        L == leftWall(x, y)
        R == rightWall(x, y)
    IN CASE kind = "straight-h" -> addWallOf(addWallOf(ed, T), B)
         [] kind = "straight-v" -> addWallOf(addWallOf(ed, L), R)
         [] kind = "wall-t" -> addWallOf(ed, T)
         [] kind = "wall-b" -> addWallOf(ed, B)
         [] kind = "wall-l" -> addWallOf(ed, L)
         [] kind = "wall-r" -> addWallOf(ed, R)
         [] kind = "turn-l" -> addWallOf(addWallOf(ed, T), L)
         [] kind = "turn-r" -> addWallOf(addWallOf(ed, T), R)
         [] kind = "turn-bl" -> addWallOf(addWallOf(ed, B), L)
         [] kind = "turn-br" -> addWallOf(addWallOf(ed, B), R)
         [] kind = "finish-line-h" ->
              addWallOf(addWallOf(addSensor(ed, x, y, 10, PIECE_WIDTH), T), B)
         [] kind = "finish-line-v" ->
              addWallOf(addWallOf(addSensor(ed, x, y, PIECE_WIDTH, 10), L), R)
         [] OTHER -> ed

\* The inner loop of redrawAllFromGrid: the cells x.. of row y.
RECURSIVE redrawRow(_, _, _)
redrawRow(ed, y, x) ==
    IF x >= GRID_WIDTH THEN ed
    ELSE LET pieceType == CellAt(ed.mapGrid, y, x)
             worldX == x * PIECE_WIDTH + PIECE_WIDTH \div 2
             worldY == y * PIECE_WIDTH + PIECE_WIDTH \div 2
         IN IF Truthy(pieceType)
            THEN redrawRow(drawPiece(ed, pieceType, worldX, worldY), y, x + 1)
            ELSE redrawRow(ed, y, x + 1)

\* The outer loop of redrawAllFromGrid: the rows y.. .
RECURSIVE redrawRows(_, _)
redrawRows(ed, y) ==
    IF y >= GRID_HEIGHT THEN ed ELSE redrawRows(redrawRow(ed, y, 0), y + 1)

redrawAllFromGrid_NoClear(ed) == redrawRows(ed, 0)

redrawAllFromGrid(ed) ==
    LET noWalls == ed.world (-) SeqToBag(ed.wallBodies)
        cleared == [ed EXCEPT
                      !.world = IF ed.finishLine # NoBody
                                THEN noWalls (-) SetToBag({ed.finishLine})
                                ELSE noWalls,
                      !.finishLine = NoBody,
                      !.wallBodies = << >>,
                      !.geomWalls = << >>]
    IN redrawRows(cleared, 0)

trackData ==
    << [x |-> 400, y |-> 95, w |-> 610, h |-> 10], [x |-> 400, y |-> 705, w |-> 610, h |-> 10],
       [x |-> 95, y |-> 400, w |-> 10, h |-> 610], [x |-> 705, y |-> 400, w |-> 10, h |-> 610],
       [x |-> 400, y |-> 205, w |-> 410, h |-> 10], [x |-> 400, y |-> 595, w |-> 410, h |-> 10],
       [x |-> 195, y |-> 400, w |-> 10, h |-> 410], [x |-> 605, y |-> 400, w |-> 10, h |-> 410] >>

RECURSIVE addWalls(_, _, _)
addWalls(ed, walls, i) ==
    IF i > Len(walls) THEN ed ELSE addWalls(addWallOf(ed, walls[i]), walls, i + 1)

createOvalTrack(ed) == addWalls(ed, trackData, 1)

gridIndex_HalfAdded(c) == (c + PIECE_WIDTH \div 2) \div PIECE_WIDTH

\* Math.floor((c - PIECE_WIDTH / 2) / PIECE_WIDTH)
gridIndex(c) == (c - PIECE_WIDTH \div 2) \div PIECE_WIDTH

inGrid_NoLowerBound(gridX, gridY) == gridY < GRID_HEIGHT /\ gridX < GRID_WIDTH

\* gridY >= 0 && gridY < GRID_HEIGHT && gridX >= 0 && gridX < GRID_WIDTH
inGrid(gridX, gridY) ==
    gridY >= 0 /\ gridY < GRID_HEIGHT /\ gridX >= 0 /\ gridX < GRID_WIDTH

addTrackPiece(ed, pieceType, x, y) ==
    LET gridX == gridIndex(x)
        gridY == gridIndex(y)
    IN IF inGrid(gridX, gridY)
       THEN redrawAllFromGrid(
              [ed EXCEPT !.mapGrid.a[gridY + 1].a[gridX + 1] =
                            IF pieceType = JStr("road") THEN JNull ELSE pieceType])
       ELSE ed

removeItem_Kept(ed) == ed

\* localStorage.removeItem('customMap')
removeItem(ed) == [ed EXCEPT !.storage = NoItem]

clearTrack(ed) == removeItem(redrawAllFromGrid([ed EXCEPT !.mapGrid = EmptyGrid]))

saveTrack_Stale(ed) == ed

\* localStorage.setItem('customMap', JSON.stringify(this.mapGrid))
saveTrack(ed) == [ed EXCEPT !.storage = Item(JSONstringify(ed.mapGrid))]

isValidRows_Unchecked(gridData) == TRUE

\* for (let row of gridData) if (!Array.isArray(row) || row.length !== GRID_WIDTH) return false;
isValidRows(gridData) ==
    \A i \in 1..Len(gridData.a) :
        gridData.a[i].t = "arr" /\ JsLength(gridData.a[i]) = GRID_WIDTH

isValidMapGrid(gridData) ==
    IF ~Truthy(gridData) \/ gridData.t # "arr" \/ JsLength(gridData) # GRID_HEIGHT
    THEN FALSE
    ELSE isValidRows(gridData)

\* loadTrack: the editor after the call and the value returned.
loadTrack(ed) ==
    LET parsed == JSONparse(ed.storage.text) IN
    IF ~ed.storage.present \/ ed.storage.text = << >>
    THEN [ed |-> redrawAllFromGrid(ed), ret |-> FALSE]
    ELSE IF ~parsed.ok
    THEN [ed |-> redrawAllFromGrid(removeItem(ed)), ret |-> FALSE]
    ELSE IF ~isValidMapGrid(parsed.val)
    THEN [ed |-> redrawAllFromGrid(removeItem(ed)), ret |-> FALSE]
    ELSE [ed |-> redrawAllFromGrid([ed EXCEPT !.mapGrid = parsed.val]), ret |-> TRUE]

\* reader.onload of importTrackFromFile
importOnLoad(ed, fileContent) ==
    LET parsed == JSONparse(fileContent) IN
    IF ~parsed.ok THEN ed
    ELSE IF ~isValidMapGrid(parsed.val) THEN ed
    ELSE saveTrack(redrawAllFromGrid([ed EXCEPT !.mapGrid = parsed.val]))

\* new TrackEditor(scene) in a scene whose world holds no static body yet
newTrackEditor(store) ==
    [mapGrid |-> EmptyGrid, geomWalls |-> << >>, wallBodies |-> << >>,
     finishLine |-> NoBody, world |-> EmptyBag, storage |-> store]

\* -------------------------------------------------------------- game scene
VARIABLES phase, now, lapData, delayedCalls, readyState, latestAction, aiAction, sent,
          restarts, crossings, lapTimes, inbox, inboxRead, everClosed

\* phase, now, lapData, delayedCalls, readyState, latestAction and aiAction
\* are the program's state.  The others record the run so far: restarts
\* counts the scene restarts, crossings[c] lists the times of the finish-line
\* events of car c, lapTimes[c] the time (ms) between the accepted crossings
\* that closed each lap, inbox the messages this agent received between the
\* last two frames that had any, inboxRead whether a frame has run since
\* the last of them, everClosed whether a policy socket has closed, and sent
\* whether the last frame's AIAgent.update called socket.send.
gameVars == << phase, now, lapData, delayedCalls, readyState, latestAction, aiAction, sent,
               restarts, crossings, lapTimes, inbox, inboxRead, everClosed >>

\* The ray sensor: rayDistances is the distances array given to castRays,
\* rayInput the car and the hulls of its last call, rayLog the array indices
\* it wrote, in order, each with the direction of its ray.
VARIABLES rayDistances, rayInput, rayLog

\* aiRayDistances is the AI car's distances array, and cars the pose of the
\* two cars in the last frame whose raycasting ran.
VARIABLES aiRayDistances, cars

rayVars == << rayDistances, rayInput, rayLog, aiRayDistances, cars >>

\* Telemetry: the scene's log, recording flag and frame counter, and what
\* the last frame gave the browser: the file downloaded (NoDownload when
\* none) and whether it raised the alert.
VARIABLES telemetryData, isRecording, frameCount, download, alerted

telemetryVars == << telemetryData, isRecording, frameCount, download, alerted >>

\* Driving: body.velocity and body.force of the two cars, the thrust and
\* angular velocity the last frame gave the player's car, this.gamepad
\* ("null" or "pad"), whether a gamepad is connected to the page, and
\* whether the scene's once('connected') listener is still registered.
VARIABLES velocity, force, control, gamepad, padPlugged, padListening

driveVars == << velocity, force, control, gamepad, padPlugged, padListening >>

\* Pace notes (audio.js): clock is Date.now(), lastNoteTime and recentNotes
\* the cooldown stamps of the PaceNoteAudio object, inFlight the playPaceNote
\* calls that are waiting for the server or for the end of their sound, and
\* posted the requests sent to the audio server, in order, each with its
\* note type and the time it was sent.
VARIABLES clock, lastNoteTime, recentNotes, inFlight, posted

audioVars == << clock, lastNoteTime, recentNotes, inFlight, posted >>

vars == << trackVars, gameVars, rayVars, telemetryVars, driveVars, audioVars >>

CarTypes == {"player", "ai"}

\* A JavaScript number: a finite value (an integer of the unit in use) or NaN.
Num(v) == [nan |-> FALSE, v |-> v]

NaN == [nan |-> TRUE, v |-> 0]

\* a * b of JavaScript numbers
Times(a, b) == IF a.nan \/ b.nan THEN NaN ELSE Num(a.v * b.v)

\* { thrust: 0, angularVelocity: 0 }
Neutral == [thrust |-> Num(0), angularVelocity |-> Num(0)]

\* The data of an inbound socket message.  parses is FALSE where
\* JSON.parse(event.data) throws; a missing field reads as undefined, and
\* undefined * number is NaN.
Msg(parses, hasThrottle, throttle, hasSteering, steering) ==
    [parses |-> parses, hasThrottle |-> hasThrottle, throttle |-> throttle,
     hasSteering |-> hasSteering, steering |-> steering]

Unparsable == Msg(FALSE, FALSE, 0, FALSE, 0)

Throttles == {10}

Steerings == {-10, 10}

WellFormed == {Msg(TRUE, TRUE, th, TRUE, st) : th \in Throttles, st \in Steerings}

\* A record without throttle and steering, such as {}.
NoFields == Msg(TRUE, FALSE, 0, FALSE, 0)

Messages == WellFormed \cup {Unparsable, NoFields}

\* modelOutput.throttle, modelOutput.steering
FieldOf(present, value) == IF present THEN Num(value) ELSE NaN

\* { thrust: modelOutput.throttle * ..., angularVelocity: modelOutput.steering * ... }
actionOf(msg) ==
    [thrust |-> Times(FieldOf(msg.hasThrottle, msg.throttle), Num(ACCELERATION_FORCE)),
     angularVelocity |-> Times(FieldOf(msg.hasSteering, msg.steering), Num(ANGULAR_VELOCITY))]

onmessage_KeepsFirst(held, msg) ==
    IF ~msg.parses \/ held # Neutral THEN held ELSE actionOf(msg)

\* The body of socket.onmessage: the value of latestAction after it.  When
\* JSON.parse throws, the handler ends before the assignment.
onmessage(held, msg) == IF ~msg.parses THEN held ELSE actionOf(msg)

onclose_Held(held) == held

\* The body of socket.onclose
onclose(held) == Neutral

\* The body of socket.onerror: it only logs.
onerror(held) == held

\* this.lapData of the constructor
InitialLapRecord ==
    [count |-> -1, startTime |-> 0, lastLap |-> 0, bestLap |-> 0, canTrigger |-> TRUE]

\* this.time.delayedCall(delay, callback re-arming carType)
TimerEvent(carType, delay) == [carType |-> carType, delay |-> delay, elapsed |-> 0]

debounced_Never(d) == FALSE

\* if (!data.canTrigger) return;
debounced(d) == ~d.canTrigger

closesLap_Always(d) == TRUE

\* if (data.count >= 0): is this crossing the end of a timed lap?
closesLap(d) == d.count >= 0

\* (now - data.startTime) / 1000.0, in thousandths of a second
lapTimeOf(d, time) == ((time - d.startTime) * THOUSANDTHS) \div MS_PER_SECOND

newBestLap_Latest(d, lapTime) == lapTime

\* if (lapTime < data.bestLap || data.bestLap === 0) data.bestLap = lapTime;
newBestLap(d, lapTime) ==
    IF lapTime < d.bestLap \/ d.bestLap = 0 THEN lapTime ELSE d.bestLap

newStartTime_Kept(d, time) == d.startTime

\* data.startTime = now
newStartTime(d, time) == time

\* completeLap: the lap records and the pending timers after the call.
completeLap(data, timers, carType, time) ==
    LET d == data[carType]
        lapTime == lapTimeOf(d, time)
        timed == IF closesLap(d)
                 THEN [d EXCEPT !.lastLap = lapTime, !.bestLap = newBestLap(d, lapTime)]
                 ELSE d
    IN IF debounced(d)
       THEN [lapData |-> data, delayedCalls |-> timers]
       ELSE [lapData |-> [data EXCEPT ![carType] =
                            [timed EXCEPT !.canTrigger = FALSE,
                                          !.count = d.count + 1,
                                          !.startTime = newStartTime(d, time)]],
             delayedCalls |-> timers \cup {TimerEvent(carType, COOLDOWN_MS)}]

carLabel_Shared(carType) == "playerCar"

\* const carLabel = (carType === 'player') ? 'playerCar' : 'aiCar'
carLabel(carType) == IF carType = "player" THEN "playerCar" ELSE "aiCar"

\* checkFinishLine: does the pair hold this car and the finish line?
isFinishPair(bodyA, bodyB, carType) ==
    LET carBody == bodyA = carLabel(carType) \/ bodyB = carLabel(carType)
        finishBody == bodyA = "finishLine" \/ bodyB = "finishLine"
    IN carBody /\ finishBody

checkFinishLine(st, bodyA, bodyB, carType, time) ==
    IF isFinishPair(bodyA, bodyB, carType)
    THEN completeLap(st.lapData, st.delayedCalls, carType, time)
    ELSE st

\* The labels of the bodies the physics world can pair in a collision.
BodyLabels ==
    {"playerCar", "aiCar"} \cup {b.label : b \in BagToSet(world)}

CollisionPairs ==
    {p \in BodyLabels \X BodyLabels :
        p[1] # p[2] /\ (p[1] \in {"playerCar", "aiCar"} \/ p[2] \in {"playerCar", "aiCar"})}

\* The time a delayed call has waited after a clock update of delta.
Waited(ev, delta) == [ev EXCEPT !.elapsed = @ + delta]

Due(ev) == ev.elapsed >= ev.delay

\* ------------------------------------------------------------ sample inputs
\* A grid that is empty but for the given cells (<<y, x>> |-> value).
GridWith(cells) ==
    JArr([y \in 1..GRID_HEIGHT |->
            JArr([x \in 1..GRID_WIDTH |->
                    IF << y - 1, x - 1 >> \in DOMAIN cells THEN cells[<< y - 1, x - 1 >>]
                    ELSE JNull])])

\* A track with one finish line, as the creator scene saves it.
RaceGrid ==
    GridWith((<< 1, 1 >> :> JStr("finish-line-v")) @@ (<< 1, 2 >> :> JStr("straight-h")))

TwoFinishGrid ==
    GridWith((<< 2, 2 >> :> JStr("finish-line-h")) @@ (<< 5, 1 >> :> JStr("finish-line-v")))

\* The piece kinds of drawPiece's switch, in the order of its cases.
PieceKinds ==
    << "straight-h", "straight-v", "wall-t", "wall-b", "wall-l", "wall-r",
       "turn-l", "turn-r", "turn-bl", "turn-br", "finish-line-h", "finish-line-v" >>

\* A saved track whose row 8 holds one piece of every kind.
AllKindsGrid == GridWith([p \in {8} \X (0..11) |-> JStr(PieceKinds[p[2] + 1])])

\* A 12 x 12 document that the editor did not write: one cell holds a
\* number, another a string that is no piece kind.
ForeignGrid == GridWith((<< 0, 0 >> :> JNum(7)) @@ (<< 3, 4 >> :> JStr("ramp")))

ElevenRows == JArr([y \in 1..(GRID_HEIGHT - 1) |-> JArr([x \in 1..GRID_WIDTH |-> JNull])])

ShortRow ==
    JArr([y \in 1..GRID_HEIGHT |->
            JArr([x \in 1..(IF y = 4 THEN GRID_WIDTH - 1 ELSE GRID_WIDTH) |-> JNull])])

StringRow ==
    JArr([y \in 1..GRID_HEIGHT |->
            IF y = 7 THEN JStr("abcdefghijkl") ELSE JArr([x \in 1..GRID_WIDTH |-> JNull])])

\* Texts a storage slot or an imported file can hold.
SampleTexts ==
    { << >>,
      << Tok("bad", "{", 0) >>,
      JSONstringify(JNull),
      JSONstringify(ElevenRows),
      JSONstringify(ShortRow),
      JSONstringify(StringRow),
      JSONstringify(TwoFinishGrid),
      JSONstringify(AllKindsGrid),
      JSONstringify(ForeignGrid) }

FileTexts ==
    { << Tok("bad", "{", 0) >>, JSONstringify(ShortRow), JSONstringify(TwoFinishGrid) }

\* A File: its MIME type and its text; NoFile is a missing file.
File(type, text) == [present |-> TRUE, type |-> type, text |-> text]

NoFile == [present |-> FALSE, type |-> "", text |-> << >>]

SampleFiles ==
    {NoFile, File("text/plain", JSONstringify(TwoFinishGrid))}
    \cup {File("application/json", text) : text \in FileTexts}

\* World points of a drop, per axis.
DropXs == {-1, 200, 299}

DropYs == {250, 1200}

PieceTypes == {"road", "straight-h", "finish-line-h"}

\* The drops tried: every kind at an inner point of a cell, the pieces with
\* walls on a cell boundary, and one drop beyond each end of the grid.
SampleDrops ==
    {d \in PieceTypes \X DropXs \X DropYs :
        \/ d[2] = 299 /\ d[3] = 250
        \/ d[2] = 200 /\ d[3] = 250 /\ d[1] # "road"
        \/ d[2] = -1 /\ d[3] = 250 /\ d[1] = "straight-h"
        \/ d[2] = 200 /\ d[3] = 1200 /\ d[1] = "finish-line-h"}

Op(name, arg) == [op |-> name, arg |-> arg]

\* ------------------------------------------------------ track editor steps
snap_Ceil(c) == ((c + PIECE_WIDTH - 1) \div PIECE_WIDTH) * PIECE_WIDTH - PIECE_WIDTH \div 2

\* CreatorScene.getSnappedCoordinates, per axis
snap(c) == (c \div PIECE_WIDTH) * PIECE_WIDTH + PIECE_WIDTH \div 2

SensorCount ==
    LET sensors == {b \in BagToSet(world) : b.isSensor}
    IN BagCardinality([b \in sensors |-> CopiesIn(b, world)])

CanRebuild == SensorCount < MaxSensors

\* For the record of the last operation: were the walls before it the
\* preset oval's?
Before == IF wallBodies # << >> /\ geomWalls = createOvalTrack(newTrackEditor(NoItem)).geomWalls
          THEN "oval" ELSE "grid"

\* The record of a drop: the walls before it, the piece kind, the world
\* point of the drop and the snapped point given to addTrackPiece.
DropOp(before, pieceType, wx, wy, x, y) ==
    [op |-> "addTrackPiece", arg |-> before, pieceType |-> pieceType,
     wx |-> wx, wy |-> wy, x |-> x, y |-> y]

\* CreatorScene.handleDrop
HandleDrop(pieceType, wx, wy) ==
    /\ CanRebuild
    /\ Put(addTrackPiece(Ed, JStr(pieceType), snap(wx), snap(wy)))
    /\ lastOp' = DropOp(Before, pieceType, wx, wy, snap(wx), snap(wy))
    /\ UNCHANGED reads
    /\ UNCHANGED gameVars
    /\ UNCHANGED rayVars
    /\ UNCHANGED telemetryVars
    /\ UNCHANGED driveVars
    /\ UNCHANGED audioVars

\* CreatorScene.handleClear
HandleClear ==
    /\ Put(clearTrack(Ed))
    /\ lastOp' = Op("clearTrack", Before)
    /\ UNCHANGED reads
    /\ UNCHANGED gameVars
    /\ UNCHANGED rayVars
    /\ UNCHANGED telemetryVars
    /\ UNCHANGED driveVars
    /\ UNCHANGED audioVars

\* CreatorScene.handleSave
HandleSave ==
    /\ Put(saveTrack(Ed))
    /\ lastOp' = Op("saveTrack", "")
    /\ UNCHANGED reads
    /\ UNCHANGED gameVars
    /\ UNCHANGED rayVars
    /\ UNCHANGED telemetryVars
    /\ UNCHANGED driveVars
    /\ UNCHANGED audioVars

\* The record of a loadTrack call: the value it returned and the item it
\* read from the slot.
LoadOp(ret, item) == [op |-> "loadTrack", arg |-> IF ret THEN "true" ELSE "false", read |-> item]

\* CreatorScene.create() when the page is loaded: a new TrackEditor in a new
\* world, then trackEditor.loadTrack().  Only the storage slot outlives the
\* page.
LoadTrack ==
    /\ LET loaded == loadTrack(newTrackEditor(storage))
       IN /\ Put(loaded.ed)
          /\ lastOp' = LoadOp(loaded.ret, storage)
    /\ reads' = << >>
    /\ UNCHANGED gameVars
    /\ UNCHANGED rayVars
    /\ UNCHANGED telemetryVars
    /\ UNCHANGED driveVars
    /\ UNCHANGED audioVars

\* trackEditor.createOvalTrack(), which the scenes call on an editor
\* without walls (newly made, or after loadTrack returned false)
CreateOvalTrack ==
    /\ wallBodies = << >>
    /\ Put(createOvalTrack(Ed))
    /\ lastOp' = Op("createOvalTrack", "")
    /\ UNCHANGED reads
    /\ UNCHANGED gameVars
    /\ UNCHANGED rayVars
    /\ UNCHANGED telemetryVars
    /\ UNCHANGED driveVars
    /\ UNCHANGED audioVars

\* importTrackFromFile up to reader.readAsText(file)
ImportTrackFromFile(file) ==
    /\ Len(reads) < MaxReads
    /\ reads' = IF file.present /\ file.type = "application/json"
                THEN Append(reads, file.text) ELSE reads
    /\ lastOp' = Op("importTrackFromFile", IF file.present THEN file.type ELSE "")
    /\ UNCHANGED << mapGrid, geomWalls, wallBodies, finishLine, world, storage >>
    /\ UNCHANGED gameVars
    /\ UNCHANGED rayVars
    /\ UNCHANGED telemetryVars
    /\ UNCHANGED driveVars
    /\ UNCHANGED audioVars

RemoveAt(seq, i) == SubSeq(seq, 1, i - 1) \o SubSeq(seq, i + 1, Len(seq))

\* reader.onload
ReaderOnLoad(i) ==
    /\ CanRebuild
    /\ Put(importOnLoad(Ed, reads[i]))
    /\ reads' = RemoveAt(reads, i)
    /\ lastOp' = Op("reader.onload", Before)
    /\ UNCHANGED gameVars
    /\ UNCHANGED rayVars
    /\ UNCHANGED telemetryVars
    /\ UNCHANGED driveVars
    /\ UNCHANGED audioVars

\* reader.onerror
ReaderOnError(i) ==
    /\ reads' = RemoveAt(reads, i)
    /\ lastOp' = Op("reader.onerror", "")
    /\ UNCHANGED << mapGrid, geomWalls, wallBodies, finishLine, world, storage >>
    /\ UNCHANGED gameVars
    /\ UNCHANGED rayVars
    /\ UNCHANGED telemetryVars
    /\ UNCHANGED driveVars
    /\ UNCHANGED audioVars

\* -------------------------------------------------------------- ray sensor
\* Geometry is kept exact in integers.  A direction is a number of eighths
\* of a turn (car.rotation is a multiple of pi / 4 in the poses tried), a
\* ray a start point, a step (ux, uy) with components in {-1, 0, 1} and the
\* number of whole steps that fit its length: RAY_LENGTH along an axis, the
\* integer part of RAY_LENGTH / sqrt 2 along a diagonal.  Walls and hull
\* edges are axis-aligned with integer corners, so every intersection falls
\* on a whole step.  A distance d is kept as its square d * d, and an array
\* entry d / RAY_LENGTH as the pair num2 = d * d, den2 = RAY_LENGTH ^ 2.
FanSize == 7

RAY_LENGTH == 200

\* An array entry whose value is the whole number v.
Exactly(v) == [num2 |-> v * v, den2 |-> 1]

\* rayAngles, as offsets from car.rotation in eighths of a turn
FanOffsets == << 0, -1, 1, -2, 2, -3, 3 >>

rayAngles(rotation) == [i \in 1..FanSize |-> (rotation + FanOffsets[i]) % 8]

\* Math.cos(angle) and Math.sin(angle), as steps
StepX(angle) == << 1, 1, 0, -1, -1, -1, 0, 1 >>[angle + 1]

StepY(angle) == << 0, 1, 1, 1, 0, -1, -1, -1 >>[angle + 1]

\* The whole steps from the car to (endX, endY)
Reach(angle) ==
    IF angle % 2 = 0 THEN RAY_LENGTH
    ELSE CHOOSE r \in 0..RAY_LENGTH :
            /\ 2 * r * r <= RAY_LENGTH * RAY_LENGTH
            /\ RAY_LENGTH * RAY_LENGTH < 2 * (r + 1) * (r + 1)

\* new Phaser.Geom.Line(carX, carY, endX, endY)
rayLine(car, angle) ==
    [x |-> car.x, y |-> car.y, ux |-> StepX(angle), uy |-> StepY(angle), reach |-> Reach(angle)]

Within(v, a, b) == (a <= v /\ v <= b) \/ (b <= v /\ v <= a)

\* Phaser.Geom.Intersects.LineToLine(rayLine, segment, point) followed by
\* Phaser.Math.Distance.Between(carX, carY, point.x, point.y): the squared
\* distances of the intersection points, none when the lines are parallel
\* or the segments do not meet (end points count).
LineToLine(ray, p1, p2) ==
    IF p1 = p2 THEN {}
    ELSE IF p1.x = p2.x
    THEN IF ray.ux = 0 THEN {}
         ELSE LET steps == (p1.x - ray.x) * ray.ux
              IN IF steps >= 0 /\ steps <= ray.reach
                    /\ Within(ray.y + ray.uy * steps, p1.y, p2.y)
                 THEN {steps * steps * (ray.ux * ray.ux + ray.uy * ray.uy)}
                 ELSE {}
    ELSE IF ray.uy = 0 THEN {}
         ELSE LET steps == (p1.y - ray.y) * ray.uy
              IN IF steps >= 0 /\ steps <= ray.reach
                    /\ Within(ray.x + ray.ux * steps, p1.x, p2.x)
                 THEN {steps * steps * (ray.ux * ray.ux + ray.uy * ray.uy)}
                 ELSE {}

Pt(x, y) == [x |-> x, y |-> y]

\* Phaser.Geom.Intersects.GetLineToRectangle(rayLine, wallRect): the
\* intersections with the four sides of the rectangle.
GetLineToRectangle(ray, rect) ==
    LET left == rect.x
        right == rect.x + rect.width
        top == rect.y
        bottom == rect.y + rect.height
    IN LineToLine(ray, Pt(left, top), Pt(right, top))
       \cup LineToLine(ray, Pt(right, top), Pt(right, bottom))
       \cup LineToLine(ray, Pt(right, bottom), Pt(left, bottom))
       \cup LineToLine(ray, Pt(left, bottom), Pt(left, top))

\* The loop over polygon.points, the closing edge included
polygonHits_Open(ray, points) ==
    IF Len(points) < 2 THEN {}
    ELSE UNION {LineToLine(ray, points[i], points[i + 1]) : i \in 1..(Len(points) - 1)}

polygonHits(ray, points) ==
    IF Len(points) < 2 THEN {}
    ELSE UNION {LineToLine(ray, points[i], points[(i % Len(points)) + 1]) : i \in 1..Len(points)}

initialClosest_Far(rayLength) == 4 * rayLength * rayLength

\* let closestDistance = this.RAY_LENGTH
initialClosest(rayLength) == rayLength * rayLength

\* if (distance < closestDistance) closestDistance = distance, over the hits
closer(closest, hits) ==
    IF \E d \in hits : d < closest
    THEN CHOOSE d \in hits : \A e \in hits : d <= e
    ELSE closest

\* closestDistance / this.RAY_LENGTH
normalized(closest) == [num2 |-> closest, den2 |-> RAY_LENGTH * RAY_LENGTH]

\* The body of rayAngles.forEach for one angle: the value stored.
castRay(car, walls, otherPolygons, angle) ==
    LET ray == rayLine(car, angle)
        wallHits == UNION {GetLineToRectangle(ray, walls[i]) : i \in 1..Len(walls)}
        polygonsHits == UNION {polygonHits(ray, otherPolygons[i]) : i \in 1..Len(otherPolygons)}
    IN normalized(closer(closer(initialClosest(RAY_LENGTH), wallHits), polygonsHits))

\* castRays: the distances array after the call.
castRays(distances, car, walls, otherPolygons) ==
    LET size == IF Len(distances) > FanSize THEN Len(distances) ELSE FanSize
    IN [i \in 1..size |->
          IF i <= FanSize THEN castRay(car, walls, otherPolygons, rayAngles(car.rotation)[i])
          ELSE distances[i]]

\* A car: its position and its rotation in eighths of a turn.
Car(x, y, rotation) == [x |-> x, y |-> y, rotation |-> rotation]

NoRayInput == [car |-> Car(0, 0, 0), otherPolygons |-> << >>]

\* body.vertices of a car that is not rotated: a 30 x 20 rectangle.
Hull(x, y) == << Pt(x - 15, y - 10), Pt(x + 15, y - 10), Pt(x + 15, y + 10), Pt(x - 15, y + 10) >>

\* The player's spawn point, a point on the edge of a wall and a point in
\* the upper straight, each in all eight rotations.
SampleCars == {Car(p[1], p[2], r) : p \in {<< 150, 150 >>, << 100, 150 >>, << 400, 150 >>}, r \in 0..7}

\* [otherPolygon]: the other car at its spawn point, further along the
\* straight, or without a body (an empty polygon).
SamplePolygons == { << << >> >>, << Hull(150, 200) >>, << Hull(250, 150) >> }

\* One call of castRays in GameScene.update
CastRays(car, otherPolygons) ==
    /\ rayDistances' = castRays(rayDistances, car, geomWalls, otherPolygons)
    /\ rayInput' = [car |-> car, otherPolygons |-> otherPolygons]
    /\ rayLog' = [i \in 1..FanSize |-> [index |-> i - 1, angle |-> rayAngles(car.rotation)[i]]]
    /\ lastOp' = Op("castRays", "")
    /\ UNCHANGED << aiRayDistances, cars >>
    /\ UNCHANGED telemetryVars
    /\ UNCHANGED driveVars
    /\ UNCHANGED << mapGrid, geomWalls, wallBodies, finishLine, world, storage, reads >>
    /\ UNCHANGED gameVars
    /\ UNCHANGED audioVars

\* The sprites of create(): the player at (150, 150), the AI at (150, 200).
SpawnPoses == [player |-> Car(150, 150, 0), ai |-> Car(150, 200, 0)]

\* A corner offset (dx, dy) of the body turned by a number of quarter turns.
Turned(dx, dy, quarters) ==
    CASE quarters % 4 = 0 -> Pt(dx, dy)
      [] quarters % 4 = 1 -> Pt(-dy, dx)
      [] quarters % 4 = 2 -> Pt(-dx, -dy)
      [] OTHER -> Pt(dy, -dx)

\* getCarPolygon(car): car.body.vertices, the corners of the 30 x 20 body
\* about the car's position, turned with the car (whole quarter turns).
getCarPolygon(car) ==
    LET corner(dx, dy) == Pt(car.x + Turned(dx, dy, car.rotation \div 2).x,
                             car.y + Turned(dx, dy, car.rotation \div 2).y)
    IN << corner(-15, -10), corner(15, -10), corner(15, 10), corner(-15, 10) >>

\* The poses tried for a frame: the spawn point, the upper straight and a
\* point near the left wall for the player, three points for the AI, both
\* cars at whole quarter turns and at least a car's length apart.
SampleFrames ==
    {f \in [player : {Car(p[1], p[2], r) : p \in {<< 150, 150 >>, << 400, 150 >>, << 120, 150 >>},
                                           r \in {0, 2, 4, 6}},
            ai : {Car(p[1], p[2], r) : p \in {<< 150, 200 >>, << 200, 150 >>, << 150, 110 >>},
                                       r \in {0, 2}}] :
        \/ f.player.x - f.ai.x >= 30 \/ f.ai.x - f.player.x >= 30
        \/ f.player.y - f.ai.y >= 30 \/ f.ai.y - f.player.y >= 30}

\* The raycasting section of GameScene.update for a frame in which the
\* physics step left the cars at frame.
Raycasting(frame) ==
    LET playerPolygon == getCarPolygon(frame.player)
        aiPolygon == getCarPolygon(frame.ai)
        currentGeomWalls == geomWalls
    IN /\ rayDistances' = castRays(rayDistances, frame.player, currentGeomWalls, << aiPolygon >>)
       /\ aiRayDistances' = castRays(aiRayDistances, frame.ai, currentGeomWalls, << playerPolygon >>)
       /\ rayInput' = [car |-> frame.ai, otherPolygons |-> << playerPolygon >>]
       /\ rayLog' = [i \in 1..FanSize |-> [index |-> i - 1, angle |-> rayAngles(frame.ai.rotation)[i]]]
       /\ cars' = frame
       /\ lastOp' = Op("raycasting", "")
       /\ UNCHANGED telemetryVars
       /\ UNCHANGED driveVars
       /\ UNCHANGED << mapGrid, geomWalls, wallBodies, finishLine, world, storage, reads >>
       /\ UNCHANGED gameVars
       /\ UNCHANGED audioVars

\* ---------------------------------------------------------------- telemetry
SAMPLE_EVERY == 3

\* createTelemetryFrame(crashed): a snapshot of the cars, the inputs and the
\* ray readings; of it the model keeps the frame it was taken in and the
\* crashed flag.
createTelemetryFrame(count, crashed) == [frame |-> count, crashed |-> crashed]

\* if (JustDown(keys.space)) this.isRecording = !this.isRecording
toggled(recording, keySpace) == IF keySpace THEN ~recording ELSE recording

subsampled_EveryFrame(recording, count) == recording

\* this.isRecording && this.frameCount % 3 === 0
subsampled(recording, count) == recording /\ count % SAMPLE_EVERY = 0

\* if (...) this.telemetryData.push(this.createTelemetryFrame(false))
recordFrame(data, recording, count) ==
    IF subsampled(recording, count) THEN Append(data, createTelemetryFrame(count, FALSE))
    ELSE data

\* onPlayerWallHit: if (this.isRecording) push(createTelemetryFrame(true))
recordCrash(data, recording, count) ==
    IF recording THEN Append(data, createTelemetryFrame(count, TRUE)) ELSE data

NoDownload == [name |-> "", frames |-> << >>]

\* The file the link hands to the browser: JSON.stringify(telemetryData,
\* null, 2), an array with one object per frame in array order.
Document(data) == [name |-> "telemetry.json", frames |-> data]

exportTelemetry_Keeps(data) ==
    IF Len(data) = 0
    THEN [telemetryData |-> data, alerted |-> TRUE, download |-> NoDownload]
    ELSE [telemetryData |-> data, alerted |-> FALSE, download |-> Document(data)]

\* exportTelemetry: the log after the call, whether it alerted, and the
\* file it downloaded.
exportTelemetry(data) ==
    IF Len(data) = 0
    THEN [telemetryData |-> data, alerted |-> TRUE, download |-> NoDownload]
    ELSE [telemetryData |-> << >>, alerted |-> FALSE, download |-> Document(data)]

\* if (JustDown(keys.e)) this.exportTelemetry()
exported(data, keyE) ==
    IF keyE THEN exportTelemetry(data)
    ELSE [telemetryData |-> data, alerted |-> FALSE, download |-> NoDownload]

\* Is the pair the player's car and a wall?
isPlayerWallHit(bodyA, bodyB) ==
    \/ bodyA = "playerCar" /\ bodyB = "wall"
    \/ bodyB = "playerCar" /\ bodyA = "wall"

\* ------------------------------------------------------------------ driving
\* Axis and button values are hundredths (1.0 is AXIS_ONE), the player's
\* thrust and angular velocity are ten-thousandths, forces are
\* ten-thousandths, velocities whole pixels per step; divisions drop the
\* fraction.
AXIS_ONE == 100

MAX_SPEED == 600

STEER_DEADZONE == 10

PEDAL_DEADZONE == 5

MASS == 10

\* 1 - frictionAir, in tenths
AIR_KEEPS == 9

\* The square of the engine's step of 1000 / 60 ms
DELTA_SQUARED == 278

Abs(v) == IF v < 0 THEN -v ELSE v

\* a / b with the fraction dropped
Trunc(a, b) == IF a >= 0 THEN a \div b ELSE -((-a) \div b)

Vec(x, y) == [nan |-> FALSE, x |-> x, y |-> y]

NaNVec == [nan |-> TRUE, x |-> 0, y |-> 0]

\* The state of the gamepad in a frame: axes[0], buttons[7], buttons[6].
Pad(steer, gas, brake) == [steer |-> steer, gas |-> gas, brake |-> brake]

\* The state of the arrow keys in a frame.
Keys(up, down, left, right) == [up |-> up, down |-> down, left |-> left, right |-> right]

Input(pad, keys) == [pad |-> pad, keys |-> keys]

IdleInput == Input(Pad(0, 0, 0), Keys(FALSE, FALSE, FALSE, FALSE))

\* The gamepad branch of the input handling
padControl(pad) ==
    [angularVelocity |-> IF Abs(pad.steer) > STEER_DEADZONE THEN pad.steer * ANGULAR_VELOCITY
                         ELSE 0,
     thrust |-> IF pad.gas > PEDAL_DEADZONE THEN pad.gas * ACCELERATION_FORCE
                ELSE IF pad.brake > PEDAL_DEADZONE
                THEN Trunc(-pad.brake * ACCELERATION_FORCE, 2)
                ELSE 0]

\* The keyboard branch
keyControl(keys) ==
    [angularVelocity |-> IF keys.left THEN -ANGULAR_VELOCITY * AXIS_ONE
                         ELSE IF keys.right THEN ANGULAR_VELOCITY * AXIS_ONE
                         ELSE 0,
     thrust |-> IF keys.up THEN ACCELERATION_FORCE * AXIS_ONE
                ELSE IF keys.down THEN Trunc(-ACCELERATION_FORCE * AXIS_ONE, 2)
                ELSE 0]

usesGamepad_Blended(ref, connected, keys) ==
    ref # "null" /\ connected /\ ~keys.up

\* if (this.gamepad && this.gamepad.connected)
usesGamepad(ref, connected, keys) == ref # "null" /\ connected

\* The player's thrust and angular velocity of a frame
playerControl(ref, connected, input) ==
    IF usesGamepad(ref, connected, input.keys) THEN padControl(input.pad)
    ELSE keyControl(input.keys)

\* { x: Math.cos(angle) * thrust, y: Math.sin(angle) * thrust }, for a
\* heading in eighths of a turn
thrustVector(rotation, thrust) ==
    IF rotation % 2 = 0 THEN Vec(StepX(rotation) * thrust, StepY(rotation) * thrust)
    ELSE Vec(Trunc(StepX(rotation) * thrust * 707, 1000),
             Trunc(StepY(rotation) * thrust * 707, 1000))

\* body.applyForce(force): body.force += force
applyForce(held, added) ==
    IF held.nan \/ added.nan THEN NaNVec ELSE Vec(held.x + added.x, held.y + added.y)

\* if (thrust !== 0) car.applyForce(...); NaN !== 0 holds
pushed(held, rotation, thrust) ==
    IF thrust.nan THEN NaNVec
    ELSE IF thrust.v # 0 THEN applyForce(held, thrustVector(rotation, thrust.v))
    ELSE held

\* Math.sqrt(v.x * v.x + v.y * v.y), whole part
speedOf(v) ==
    CHOOSE r \in 0..(Abs(v.x) + Abs(v.y)) :
        r * r <= v.x * v.x + v.y * v.y /\ v.x * v.x + v.y * v.y < (r + 1) * (r + 1)

speedLimited_Off(v) == v

\* Speed limiting: if (currentSpeed > MAX_SPEED) setVelocity(v / currentSpeed * MAX_SPEED)
speedLimited(v) ==
    IF v.nan THEN v
    ELSE IF speedOf(v) > MAX_SPEED
    THEN Vec(Trunc(v.x * MAX_SPEED, speedOf(v)), Trunc(v.y * MAX_SPEED, speedOf(v)))
    ELSE v

\* The engine's step for a body: the velocity kept through air friction
\* plus force / mass times the square of the step.
integrated(v, f) ==
    IF v.nan \/ f.nan THEN NaNVec
    ELSE Vec(Trunc(v.x * AIR_KEEPS, 10) + Trunc(f.x * DELTA_SQUARED, MASS * 10000),
             Trunc(v.y * AIR_KEEPS, 10) + Trunc(f.y * DELTA_SQUARED, MASS * 10000))

\* onPlayerWallHit: setVelocity(currentVel.x * 0.5, currentVel.y * 0.5)
halved(v) == IF v.nan THEN v ELSE Vec(Trunc(v.x, 2), Trunc(v.y, 2))

\* -------------------------------------------------------- game scene steps
\* The part of GameScene.create() that builds the track: a new editor in
\* a new physics world, the stored track or else the oval.
createTrack(store) ==
    LET loaded == loadTrack(newTrackEditor(store))
    IN IF loaded.ret THEN loaded.ed ELSE createOvalTrack(loaded.ed)

Deltas == {2500, 5000}

\* The step of the clock where only the number of frames matters.
FrameDelta == 2500

\* One step of the scene clock: time.now advances, every pending delayed
\* call waits delta longer, and the due ones run and re-arm their agent.
ClockUpdate(delta) ==
    /\ phase = "clock"
    /\ now + delta <= MaxTime
    /\ now' = now + delta
    /\ LET waited == {Waited(ev, delta) : ev \in delayedCalls}
           due == {ev \in waited : Due(ev)}
       IN /\ delayedCalls' = waited \ due
          /\ lapData' = [c \in CarTypes |->
                           IF \E ev \in due : ev.carType = c
                           THEN [lapData[c] EXCEPT !.canTrigger = TRUE]
                           ELSE lapData[c]]
    /\ phase' = "physics"
    /\ lastOp' = Op("clock", "")
    /\ UNCHANGED << mapGrid, geomWalls, wallBodies, finishLine, world, storage, reads >>
    /\ UNCHANGED rayVars
    /\ UNCHANGED telemetryVars
    /\ UNCHANGED driveVars
    /\ UNCHANGED << readyState, latestAction, aiAction, sent, restarts, crossings, lapTimes, inbox, inboxRead, everClosed >>
    /\ UNCHANGED audioVars

\* The time between two accepted crossings of a car, when this event is
\* accepted and is not the car's first accepted crossing.
Recorded(before, after, carType, time) ==
    IF after[carType].count # before[carType].count /\ before[carType].count >= 0
    THEN << time - before[carType].startTime >> ELSE << >>

\* The 'collisionstart' listener of create() for the pair (bodyA, bodyB).
CollisionStart(bodyA, bodyB) ==
    /\ phase = "physics"
    /\ << bodyA, bodyB >> \in CollisionPairs
    /\ "finishLine" \in {bodyA, bodyB} =>
          Len(crossings["player"]) + Len(crossings["ai"]) < MaxCrossings
    /\ LET st0 == [lapData |-> lapData, delayedCalls |-> delayedCalls]
           st1 == checkFinishLine(st0, bodyA, bodyB, "player", now)
           st2 == checkFinishLine(st1, bodyA, bodyB, "ai", now)
       IN /\ lapData' = st2.lapData
          /\ delayedCalls' = st2.delayedCalls
          /\ lapTimes' = [c \in CarTypes |->
                            lapTimes[c] \o Recorded(lapData, st2.lapData, c, now)]
    /\ crossings' = [c \in CarTypes |->
                       IF {bodyA, bodyB} = {carLabel(c), "finishLine"}
                       THEN Append(crossings[c], now) ELSE crossings[c]]
    /\ phase' = "update"
    /\ telemetryData' = IF isPlayerWallHit(bodyA, bodyB)
                        THEN recordCrash(telemetryData, isRecording, frameCount)
                        ELSE telemetryData
    /\ lastOp' = Op("collisionstart",
                    IF {bodyA, bodyB} = {"playerCar", "finishLine"} THEN "player"
                    ELSE IF {bodyA, bodyB} = {"aiCar", "finishLine"} THEN "ai"
                    ELSE IF isPlayerWallHit(bodyA, bodyB) THEN "crash" ELSE "")
    /\ UNCHANGED << mapGrid, geomWalls, wallBodies, finishLine, world, storage, reads >>
    /\ velocity' = [c \in CarTypes |->
                       IF c = "player" /\ isPlayerWallHit(bodyA, bodyB)
                       THEN halved(integrated(velocity[c], force[c]))
                       ELSE integrated(velocity[c], force[c])]
    /\ force' = [c \in CarTypes |-> Vec(0, 0)]
    /\ UNCHANGED rayVars
    /\ UNCHANGED << isRecording, frameCount, download, alerted >>
    /\ UNCHANGED << control, gamepad, padPlugged, padListening >>
    /\ UNCHANGED << now, readyState, latestAction, aiAction, sent, restarts, inbox, inboxRead,
                    everClosed >>
    /\ UNCHANGED audioVars

\* A physics step in which no collision starts.
NoCollision ==
    /\ phase = "physics"
    /\ phase' = "update"
    /\ lastOp' = Op("physics", "")
    /\ velocity' = [c \in CarTypes |-> integrated(velocity[c], force[c])]
    /\ force' = [c \in CarTypes |-> Vec(0, 0)]
    /\ UNCHANGED << control, gamepad, padPlugged, padListening >>
    /\ UNCHANGED << mapGrid, geomWalls, wallBodies, finishLine, world, storage, reads >>
    /\ UNCHANGED rayVars
    /\ UNCHANGED telemetryVars
    /\ UNCHANGED << now, lapData, delayedCalls, readyState, latestAction, aiAction, sent,
                    restarts, crossings, lapTimes, inbox, inboxRead, everClosed >>
    /\ UNCHANGED audioVars

sends_Always(state) == TRUE

\* AIAgent.update: if (this.socket.readyState === WebSocket.OPEN) socket.send(...)
sends(state) == state = "OPEN"

\* AIAgent.update: the action it returns.
AIAgentUpdate(held) == held

\* GameScene.update(); keyR is JustDown(keys.r).  scene.restart() shuts the
\* scene down (the clock drops its pending calls, the physics world its
\* bodies) and runs create() again on the same scene object.
UpdateOp(arg, keySpace, keyE, input) ==
    [op |-> "update", arg |-> arg, keySpace |-> keySpace, keyE |-> keyE, input |-> input]

\* The AI's thrust, in the unit of the forces
aiThrust(action) == Times(action.thrust, Num(10))

Update(keyR, keySpace, keyE, input) ==
    /\ phase = "update"
    /\ phase' = "clock"
    /\ sent' = sends(readyState)
    /\ aiAction' = AIAgentUpdate(latestAction)
    /\ inboxRead' = TRUE
    /\ control' = playerControl(gamepad, padPlugged, input)
    /\ IF keyR
       THEN /\ velocity' = [c \in CarTypes |-> Vec(0, 0)]
            /\ force' = [c \in CarTypes |-> Vec(0, 0)]
            /\ gamepad' = "null"
            /\ padListening' = TRUE
            /\ rayDistances' = [i \in 1..FanSize |-> Exactly(0)]
            /\ aiRayDistances' = [i \in 1..FanSize |-> Exactly(0)]
            /\ cars' = SpawnPoses
       ELSE /\ velocity' = [velocity EXCEPT !["player"] = speedLimited(@)]
            /\ force' = [c \in CarTypes |->
                           IF c = "player"
                           THEN pushed(force[c], cars[c].rotation,
                                       Num(playerControl(gamepad, padPlugged, input).thrust))
                           ELSE pushed(force[c], cars[c].rotation,
                                       aiThrust(AIAgentUpdate(latestAction)))]
            /\ UNCHANGED << gamepad, padListening, rayDistances, aiRayDistances, cars >>
    /\ UNCHANGED << padPlugged, rayInput, rayLog >>
    /\ LET count == frameCount + 1
           recording == toggled(isRecording, keySpace)
           log == exported(recordFrame(telemetryData, recording, count), keyE)
       IN /\ download' = log.download
          /\ alerted' = log.alerted
          /\ IF keyR
             THEN /\ telemetryData' = << >>
                  /\ isRecording' = FALSE
                  /\ frameCount' = 0
             ELSE /\ telemetryData' = log.telemetryData
                  /\ isRecording' = recording
                  /\ frameCount' = count
    /\ IF keyR
       THEN /\ restarts < MaxRestarts
            /\ restarts' = restarts + 1
            /\ Put(createTrack(storage))
            /\ readyState' = "CONNECTING"
            /\ latestAction' = Neutral
            /\ inbox' = << >>
            /\ delayedCalls' = {}
            /\ lapData' = [c \in CarTypes |-> [lapData[c] EXCEPT !.startTime = now]]
            /\ lastOp' = UpdateOp("restart", keySpace, keyE, input)
       ELSE /\ lastOp' = UpdateOp("", keySpace, keyE, input)
            /\ UNCHANGED << mapGrid, geomWalls, wallBodies, finishLine, world, storage >>
            /\ UNCHANGED << readyState, latestAction, inbox, delayedCalls, lapData, restarts >>
    /\ UNCHANGED << reads, now, crossings, lapTimes, everClosed >>
    /\ UNCHANGED audioVars

\* The browser reports a gamepad: the input plugin emits 'connected', and
\* the listener of create(), registered with once(), stores the pad.
PadConnected ==
    /\ phase = "clock"
    /\ ~padPlugged
    /\ gamepad = "null"
    /\ padPlugged' = TRUE
    /\ gamepad' = IF padListening THEN "pad" ELSE gamepad
    /\ padListening' = FALSE
    /\ lastOp' = Op("gamepad", "connected")
    /\ UNCHANGED << velocity, force, control >>
    /\ UNCHANGED << mapGrid, geomWalls, wallBodies, finishLine, world, storage, reads >>
    /\ UNCHANGED gameVars
    /\ UNCHANGED rayVars
    /\ UNCHANGED telemetryVars
    /\ UNCHANGED audioVars

\* The gamepad is unplugged: pad.connected becomes false.
PadDisconnected ==
    /\ phase = "clock"
    /\ padPlugged
    /\ padPlugged' = FALSE
    /\ lastOp' = Op("gamepad", "disconnected")
    /\ UNCHANGED << velocity, force, control, gamepad, padListening >>
    /\ UNCHANGED << mapGrid, geomWalls, wallBodies, finishLine, world, storage, reads >>
    /\ UNCHANGED gameVars
    /\ UNCHANGED rayVars
    /\ UNCHANGED telemetryVars
    /\ UNCHANGED audioVars

\* socket.onopen
SocketOpen ==
    /\ phase = "clock"
    /\ readyState = "CONNECTING"
    /\ readyState' = "OPEN"
    /\ lastOp' = Op("socket", "open")
    /\ UNCHANGED << mapGrid, geomWalls, wallBodies, finishLine, world, storage, reads >>
    /\ UNCHANGED rayVars
    /\ UNCHANGED telemetryVars
    /\ UNCHANGED driveVars
    /\ UNCHANGED << phase, now, lapData, delayedCalls, latestAction, aiAction, sent,
                    restarts, crossings, lapTimes, inbox, inboxRead, everClosed >>
    /\ UNCHANGED audioVars

\* socket.onmessage with event.data = msg
SocketMessage(msg) ==
    /\ phase = "clock"
    /\ readyState = "OPEN"
    /\ inboxRead \/ Len(inbox) < MaxInbox
    /\ latestAction' = onmessage(latestAction, msg)
    /\ inbox' = IF inboxRead THEN << msg >> ELSE Append(inbox, msg)
    /\ inboxRead' = FALSE
    /\ lastOp' = Op("socket", "message")
    /\ UNCHANGED << mapGrid, geomWalls, wallBodies, finishLine, world, storage, reads >>
    /\ UNCHANGED rayVars
    /\ UNCHANGED telemetryVars
    /\ UNCHANGED driveVars
    /\ UNCHANGED << phase, now, lapData, delayedCalls, readyState, aiAction, sent,
                    restarts, crossings, lapTimes, everClosed >>
    /\ UNCHANGED audioVars

\* The socket closes: socket.onclose, after socket.onerror when the
\* connection failed (the browser fires both in one task).
SocketClose(failed) ==
    /\ phase = "clock"
    /\ readyState \in {"CONNECTING", "OPEN"}
    /\ readyState' = "CLOSED"
    /\ latestAction' = onclose(IF failed THEN onerror(latestAction) ELSE latestAction)
    /\ everClosed' = TRUE
    /\ lastOp' = Op("socket", IF failed THEN "error" ELSE "close")
    /\ UNCHANGED << mapGrid, geomWalls, wallBodies, finishLine, world, storage, reads >>
    /\ UNCHANGED rayVars
    /\ UNCHANGED telemetryVars
    /\ UNCHANGED driveVars
    /\ UNCHANGED << phase, now, lapData, delayedCalls, aiAction, sent,
                    restarts, crossings, lapTimes, inbox, inboxRead >>
    /\ UNCHANGED audioVars

\* ---------------------------------------------------------------- pace notes
\* One PaceNoteAudio object.  Date.now() when the page was loaded, in
\* milliseconds since then plus this offset, so that the zero stamps of the
\* constructor lie further back than any cooldown.
PAGE_LOADED == 10000

CLOCK_STEP == 500

MIN_NOTE_INTERVAL == 2000

CRASH_INTERVAL == 1000

LAP_INTERVAL == 3000

\* The note types of the convenience methods, and the default of
\* playPaceNote's second parameter.
NoteTypes == {"start", "turnLeft", "turnRight", "crash", "lapComplete", "general"}

\* this.recentNotes of the constructor
NoRecentNotes == [turnLeft |-> 0, turnRight |-> 0, crash |-> 0, lapComplete |-> 0]

Stamps(last, recent) == [lastNoteTime |-> last, recentNotes |-> recent]

\* PaceNoteAudio.shouldSkipNote
shouldSkipNote(stamps, noteType, t) ==
    IF noteType = "start" THEN FALSE
    ELSE IF noteType \in {"turnLeft", "turnRight"}
         THEN t - stamps.recentNotes[noteType] < MIN_NOTE_INTERVAL
    ELSE IF noteType = "crash" THEN t - stamps.recentNotes.crash < CRASH_INTERVAL
    ELSE IF noteType = "lapComplete" THEN t - stamps.recentNotes.lapComplete < LAP_INTERVAL
    ELSE t - stamps.lastNoteTime < MIN_NOTE_INTERVAL

\* PaceNoteAudio.updateCooldown
updateCooldown(stamps, noteType, t) ==
    Stamps(t, IF noteType \in DOMAIN stamps.recentNotes
              THEN [stamps.recentNotes EXCEPT ![noteType] = t]
              ELSE stamps.recentNotes)

\* A playPaceNote call past its cooldown check: its note type and the now
\* it read on entry.
Request(noteType, t) == [noteType |-> noteType, now |-> t]

\* Date.now() advances.
ClockTick ==
    /\ clock + CLOCK_STEP <= PAGE_LOADED + MaxAudioTime
    /\ clock' = clock + CLOCK_STEP
    /\ lastOp' = Op("clock", "tick")
    /\ UNCHANGED << lastNoteTime, recentNotes, inFlight, posted >>
    /\ UNCHANGED << mapGrid, geomWalls, wallBodies, finishLine, world, storage, reads >>
    /\ UNCHANGED gameVars
    /\ UNCHANGED rayVars
    /\ UNCHANGED telemetryVars
    /\ UNCHANGED driveVars

\* PaceNoteAudio.playPaceNote up to its first await: the cooldown check,
\* and the fetch that posts the request to the server.
PlayPaceNote(noteType) ==
    /\ Len(posted) < MaxNotes
    /\ IF shouldSkipNote(Stamps(lastNoteTime, recentNotes), noteType, clock)
       THEN /\ lastOp' = Op("playPaceNote", "skipped")
            /\ UNCHANGED << inFlight, posted >>
       ELSE /\ lastOp' = Op("playPaceNote", "posted")
            /\ inFlight' = Append(inFlight, Request(noteType, clock))
            /\ posted' = Append(posted, Request(noteType, clock))
    /\ UNCHANGED << clock, lastNoteTime, recentNotes >>
    /\ UNCHANGED << mapGrid, geomWalls, wallBodies, finishLine, world, storage, reads >>
    /\ UNCHANGED gameVars
    /\ UNCHANGED rayVars
    /\ UNCHANGED telemetryVars
    /\ UNCHANGED driveVars

\* The rest of the playPaceNote call inFlight[i].  played: the server
\* answered with a path and the sound ran to its end, so the call reaches
\* updateCooldown with the now it read on entry.  Otherwise the fetch or
\* the playback failed, or the answer had no path: the call returns or
\* lands in its catch block, and the stamps stay.
Settle(i, played) ==
    /\ i \in 1..Len(inFlight)
    /\ LET call == inFlight[i]
           stamps == IF played
                     THEN updateCooldown(Stamps(lastNoteTime, recentNotes), call.noteType, call.now)
                     ELSE Stamps(lastNoteTime, recentNotes)
       IN /\ lastNoteTime' = stamps.lastNoteTime
          /\ recentNotes' = stamps.recentNotes
    /\ inFlight' = RemoveAt(inFlight, i)
    /\ lastOp' = Op("playPaceNote", IF played THEN "played" ELSE "failed")
    /\ UNCHANGED << clock, posted >>
    /\ UNCHANGED << mapGrid, geomWalls, wallBodies, finishLine, world, storage, reads >>
    /\ UNCHANGED gameVars
    /\ UNCHANGED rayVars
    /\ UNCHANGED telemetryVars
    /\ UNCHANGED driveVars

\* ---------------------------------------------------------- specifications
InitGameVars ==
    /\ phase = "clock"
    /\ now = 0
    /\ lapData = [c \in CarTypes |-> InitialLapRecord]
    /\ delayedCalls = {}
    /\ readyState = "CONNECTING"
    /\ latestAction = Neutral
    /\ aiAction = Neutral
    /\ sent = FALSE
    /\ restarts = 0
    /\ crossings = [c \in CarTypes |-> << >>]
    /\ lapTimes = [c \in CarTypes |-> << >>]
    /\ inbox = << >>
    /\ inboxRead = TRUE
    /\ everClosed = FALSE
    /\ rayDistances = [i \in 1..FanSize |-> Exactly(0)]
    /\ rayInput = NoRayInput
    /\ rayLog = << >>
    /\ aiRayDistances = [i \in 1..FanSize |-> Exactly(0)]
    /\ cars = SpawnPoses
    /\ telemetryData = << >>
    /\ isRecording = FALSE
    /\ frameCount = 0
    /\ download = NoDownload
    /\ alerted = FALSE
    /\ velocity = [c \in CarTypes |-> Vec(0, 0)]
    /\ force = [c \in CarTypes |-> Vec(0, 0)]
    /\ control = [thrust |-> 0, angularVelocity |-> 0]
    /\ gamepad = "null"
    /\ padPlugged = FALSE
    /\ padListening = TRUE
    /\ clock = PAGE_LOADED
    /\ lastNoteTime = 0
    /\ recentNotes = NoRecentNotes
    /\ inFlight = << >>
    /\ posted = << >>

\* The creator page: a new TrackEditor over whatever the slot holds.
InitTrack ==
    /\ \E text \in SampleTexts, present \in BOOLEAN :
          /\ present \/ text = << >>
          /\ storage = [present |-> present, text |-> text]
    /\ mapGrid = EmptyGrid
    /\ geomWalls = << >>
    /\ wallBodies = << >>
    /\ finishLine = NoBody
    /\ world = EmptyBag
    /\ reads = << >>
    /\ lastOp = Op("new", "")
    /\ InitGameVars

NextTrack ==
    \/ \E d \in SampleDrops : HandleDrop(d[1], d[2], d[3])
    \/ HandleClear
    \/ HandleSave
    \/ LoadTrack
    \/ CreateOvalTrack
    \/ \E file \in SampleFiles : ImportTrackFromFile(file)
    \/ \E i \in 1..Len(reads) : ReaderOnLoad(i)
    \/ \E i \in 1..Len(reads) : ReaderOnError(i)

SpecTrack == InitTrack /\ [][NextTrack]_vars

\* The game page after GameScene's constructor and create().
InitGame ==
    /\ \E store \in {Item(JSONstringify(RaceGrid)), NoItem} :
          /\ storage = store
          /\ mapGrid = createTrack(store).mapGrid
          /\ geomWalls = createTrack(store).geomWalls
          /\ wallBodies = createTrack(store).wallBodies
          /\ finishLine = createTrack(store).finishLine
          /\ world = createTrack(store).world
    /\ reads = << >>
    /\ lastOp = Op("create", "")
    /\ InitGameVars

NextLap ==
    \/ \E delta \in Deltas : ClockUpdate(delta)
    \/ \E bodyA, bodyB \in BodyLabels : CollisionStart(bodyA, bodyB)
    \/ NoCollision
    \/ \E keyR \in BOOLEAN : Update(keyR, FALSE, FALSE, IdleInput)

SpecLap == InitGame /\ [][NextLap]_vars

NextAI ==
    \/ ClockUpdate(FrameDelta)
    \/ NoCollision
    \/ \E keyR \in BOOLEAN : Update(keyR, FALSE, FALSE, IdleInput)
    \/ SocketOpen
    \/ \E msg \in Messages : SocketMessage(msg)
    \/ \E failed \in BOOLEAN : SocketClose(failed)

SpecAI == InitGame /\ [][NextAI]_vars

NextRays == \E car \in SampleCars, otherPolygons \in SamplePolygons : CastRays(car, otherPolygons)

SpecRays == InitGame /\ [][NextRays]_vars

\* Recording: the frames of a session with the keys SPACE, E and R, in which
\* the only collisions are the player's with a wall.
NextTelemetry ==
    \/ \E delta \in Deltas : ClockUpdate(delta)
    \/ CollisionStart("playerCar", "wall")
    \/ NoCollision
    \/ \E keyR, keySpace, keyE \in BOOLEAN : Update(keyR, keySpace, keyE, IdleInput)

SpecTelemetry == InitGame /\ [][NextTelemetry]_vars

\* The states of the input devices tried in a frame.
SampleInputs ==
    {Input(pad, keys) :
        pad \in {Pad(50, 100, 0), Pad(-100, 4, 100)},
        keys \in {Keys(TRUE, FALSE, TRUE, FALSE), Keys(FALSE, TRUE, FALSE, TRUE)}}

\* A policy answer that asks for a throttle of 3000.
FullThrottle == Msg(TRUE, TRUE, 30000, TRUE, 0)

\* Driving: frames with the input devices and the policy socket.
NextDrive ==
    \/ ClockUpdate(FrameDelta)
    \/ NoCollision
    \/ \E input \in SampleInputs : Update(FALSE, FALSE, FALSE, input)
    \/ Update(TRUE, FALSE, FALSE, IdleInput)
    \/ SocketOpen
    \/ SocketMessage(FullThrottle)
    \/ PadConnected
    \/ PadDisconnected

SpecDrive == InitGame /\ [][NextDrive]_vars

NextSensors == \E frame \in SampleFrames : Raycasting(frame)

SpecSensors == InitGame /\ [][NextSensors]_vars

\* The notes requested: a crash, a turn, the start message and a note of
\* the default type.
SampleNotes == {"crash", "turnLeft", "start", "general"}

\* The pace notes: requests at any time, answered in any order.
NextAudio ==
    \/ ClockTick
    \/ \E noteType \in SampleNotes : PlayPaceNote(noteType)
    \/ \E i \in 1..Len(inFlight), played \in BOOLEAN : Settle(i, played)

SpecAudio == InitGame /\ [][NextAudio]_vars

TypeOK ==
    /\ phase \in {"clock", "physics", "update"}
    /\ readyState \in {"CONNECTING", "OPEN", "CLOSED"}
    /\ now \in 0..MaxTime

\* ------------------------------------------------------------------ claims
RECURSIVE MinOf(_)
MinOf(seq) ==
    IF Len(seq) = 1 THEN seq[1]
    ELSE IF seq[1] <= MinOf(Tail(seq)) THEN seq[1] ELSE MinOf(Tail(seq))

\* The finish-line events of car c so far are exactly three, each more than
\* the cooldown after the one before, and the scene was never restarted.
ThreeSpacedCrossings(c) ==
    /\ restarts = 0
    /\ Len(crossings[c]) = 3
    /\ crossings[c][2] - crossings[c][1] > COOLDOWN_MS
    /\ crossings[c][3] - crossings[c][2] > COOLDOWN_MS

\* C1: after exactly three finish-line crossing events of a car at times
\* t0 < t1 < t2, each more than the cooldown after the one before, starting
\* from the initial lap record, the car's lap count is 2 and its last lap
\* is t2 - t1.
C1_ThreeCrossings ==
    \A c \in CarTypes :
        ThreeSpacedCrossings(c) =>
            /\ lapData[c].count = 2
            /\ lapData[c].lastLap * MS_PER_SECOND
                 = (crossings[c][3] - crossings[c][2]) * THOUSANDTHS

C1_Witness ==
    \E c \in CarTypes : ThreeSpacedCrossings(c) /\ lapData[c].count = 2

\* The last step delivered a finish-line overlap event for car c.
FinishEventFor(c) == lastOp = Op("collisionstart", c)

\* C5: a finish-line overlap event for a car that is cooling down leaves
\* the car's lap record as it was and the pending delayed calls as they
\* were (nothing is queued, the re-arm is not postponed).
C5_IgnoredWhileCooling ==
    [][\A c \in CarTypes :
          (FinishEventFor(c)' /\ ~lapData[c].canTrigger) =>
              (lapData'[c] = lapData[c] /\ delayedCalls' = delayedCalls)]_vars

C5_Witness ==
    \E c \in CarTypes :
        /\ FinishEventFor(c)
        /\ ~lapData[c].canTrigger
        /\ lapData[c].startTime < now
        /\ \E ev \in delayedCalls : ev.carType = c /\ ev.elapsed > 0

\* C6: a car is armed again 5 seconds after its accepted crossing, also
\* when the scene is restarted during the cooldown: no car is still cooling
\* down more than 5 seconds after its lap start, which is the time of its
\* last accepted crossing or of a later restart.
C6_RearmedAfterCooldown ==
    \A c \in CarTypes :
        ~lapData[c].canTrigger => now - lapData[c].startTime <= COOLDOWN_MS

\* C7: a car's first accepted crossing moves count from -1 to 0, sets the
\* lap start to the crossing time and leaves lastLap and bestLap at 0, and
\* no lap time is recorded for it.
C7_FirstCrossingArmsOnly ==
    [][\A c \in CarTypes :
          (FinishEventFor(c)' /\ lapData[c].count = -1) =>
              /\ lapData'[c].count = 0
              /\ lapData'[c].startTime = now
              /\ lapData'[c].lastLap = 0
              /\ lapData'[c].bestLap = 0
              /\ lapTimes'[c] = << >>]_vars

C7_Witness ==
    \E c \in CarTypes :
        /\ FinishEventFor(c)
        /\ lapData[c].count = 0
        /\ lapData[c].startTime = now
        /\ now > 0

\* C8: for a car with at least one completed lap, bestLap is the least of
\* the lap times recorded so far, lastLap the latest, and bestLap <= lastLap.
C8_BestIsMinimum ==
    \A c \in CarTypes :
        lapData[c].count >= 1 =>
            /\ Len(lapTimes[c]) = lapData[c].count
            /\ lapData[c].bestLap * MS_PER_SECOND = MinOf(lapTimes[c]) * THOUSANDTHS
            /\ lapData[c].lastLap * MS_PER_SECOND
                 = lapTimes[c][Len(lapTimes[c])] * THOUSANDTHS
            /\ lapData[c].bestLap <= lapData[c].lastLap

C8_Witness ==
    \E c \in CarTypes : lapData[c].count >= 2 /\ lapData[c].bestLap < lapData[c].lastLap

\* The last step was a frame (GameScene.update).
FrameRan == lastOp.op = "update"

\* C2 as stated: once a policy socket has closed, the action applied to the
\* AI car is neutral in every later frame.
C2_NeutralEverAfter == (everClosed /\ FrameRan) => aiAction = Neutral

\* C2 as amended: while the socket of the scene's AIAgent is closed, the
\* held action and the action applied in every frame are neutral, whatever
\* had been received; this lasts until a restart makes a new AIAgent.
C2_NeutralWhileClosed ==
    readyState = "CLOSED" => (latestAction = Neutral /\ (FrameRan => aiAction = Neutral))

C2_Witness ==
    /\ readyState = "CLOSED"
    /\ FrameRan
    /\ inbox # << >> /\ inbox[Len(inbox)] \in WellFormed
    /\ aiAction = Neutral

\* The last step was a policy-channel error: an open failure or a socket
\* error, a close, or a message that is not a well-formed action record.
ChannelError ==
    \/ lastOp \in {Op("socket", "error"), Op("socket", "close")}
    \/ lastOp = Op("socket", "message") /\ inbox[Len(inbox)] \notin WellFormed

\* C9: every policy-channel error leaves the held AI action neutral.
C9_ErrorsLeaveNeutral == ChannelError => latestAction = Neutral

\* C10: the action applied in a frame is the one computed from the last
\* message received before it on the open socket (thrust = throttle x
\* ACCELERATION_FORCE, angularVelocity = steering x ANGULAR_VELOCITY),
\* whatever messages came before it.
C10_LastMessageWins ==
    (FrameRan /\ readyState = "OPEN" /\ inbox # << >> /\ inbox[Len(inbox)] \in WellFormed) =>
        /\ aiAction.thrust = Num(inbox[Len(inbox)].throttle * ACCELERATION_FORCE)
        /\ aiAction.angularVelocity = Num(inbox[Len(inbox)].steering * ANGULAR_VELOCITY)

C10_Witness ==
    /\ FrameRan /\ readyState = "OPEN"
    /\ Len(inbox) >= 2
    /\ inbox[1] \in WellFormed /\ inbox[Len(inbox)] \in WellFormed
    /\ inbox[1] # inbox[Len(inbox)]
    /\ aiAction = actionOf(inbox[Len(inbox)])

\* The cell kinds and the sides on which each has a wall.
SidesOf(kind) ==
    CASE kind \in {"straight-h", "finish-line-h"} -> << "top", "bottom" >>
      [] kind \in {"straight-v", "finish-line-v"} -> << "left", "right" >>
      [] kind = "wall-t" -> << "top" >>
      [] kind = "wall-b" -> << "bottom" >>
      [] kind = "wall-l" -> << "left" >>
      [] kind = "wall-r" -> << "right" >>
      [] kind = "turn-l" -> << "top", "left" >>
      [] kind = "turn-r" -> << "top", "right" >>
      [] kind = "turn-bl" -> << "bottom", "left" >>
      [] kind = "turn-br" -> << "bottom", "right" >>
      [] OTHER -> << >>

\* The rectangle of the wall on one side of the cell in column cx, row cy,
\* by its top-left corner, width and height.
SideRect(side, cx, cy) ==
    LET left == cx * 100
        top == cy * 100
    IN CASE side = "top" -> [x |-> left, y |-> top, width |-> 100, height |-> 10]
         [] side = "bottom" -> [x |-> left, y |-> top + 90, width |-> 100, height |-> 10]
         [] side = "left" -> [x |-> left, y |-> top, width |-> 10, height |-> 100]
         [] side = "right" -> [x |-> left + 90, y |-> top, width |-> 10, height |-> 100]

CellRects(grid, cx, cy) ==
    LET sides == SidesOf(grid.a[cy + 1].a[cx + 1].s)
    IN [i \in 1..Len(sides) |-> SideRect(sides[i], cx, cy)]

RECURSIVE Concat(_, _, _)
\* f(from) \o f(from + 1) \o ... \o f(to)
Concat(f, from, to) ==
    IF from > to THEN << >> ELSE f[from] \o Concat(f, from + 1, to)

\* The rectangles of all cells of a 12 x 12 grid in row-major order.
ExpectedRects(grid) ==
    LET row == [cy \in 0..11 |-> Concat([cx \in 0..11 |-> CellRects(grid, cx, cy)], 0, 11)]
    IN Concat(row, 0, 11)

\* A body and a rectangle that describe the same centre and size.
SameWall(body, rect) ==
    /\ ~body.isSensor
    /\ body.w = rect.width /\ body.h = rect.height
    /\ 2 * body.x = 2 * rect.x + rect.width
    /\ 2 * body.y = 2 * rect.y + rect.height

\* The collidable bodies of the physics world, as a bag.
WorldWalls ==
    LET walls == {b \in BagToSet(world) : ~b.isSensor}
    IN [b \in walls |-> CopiesIn(b, world)]

WallsFromGrid ==
    /\ Len(wallBodies) = Len(geomWalls)
    /\ \A i \in 1..Len(wallBodies) : SameWall(wallBodies[i], geomWalls[i])
    /\ geomWalls = ExpectedRects(mapGrid)
    /\ WorldWalls = SeqToBag(wallBodies)

\* mapGrid is an array of exactly 12 arrays of exactly 12 cells each.
IsSquareGrid ==
    /\ mapGrid.t = "arr" /\ Len(mapGrid.a) = 12
    /\ \A y \in 1..Len(mapGrid.a) : mapGrid.a[y].t = "arr" /\ Len(mapGrid.a[y].a) = 12

\* C3: after any sequence of addTrackPiece, clearTrack, saveTrack, loadTrack
\* and importTrackFromFile, with arbitrary stored or imported data, mapGrid
\* is exactly 12 rows of exactly 12 cells.
C3_GridIsSquare == IsSquareGrid

C3_Witness ==
    /\ lastOp.op \in {"loadTrack", "reader.onload"}
    /\ IsSquareGrid
    /\ mapGrid = TwoFinishGrid

\* C4: after every operation that changes the grid, wallBodies and
\* geomWalls have the same length, the i-th body and the i-th rectangle
\* describe the same centre and size, the rectangles are those derived from
\* the new grid in row-major order, and the collidable bodies in the world
\* are exactly wallBodies (no earlier wall, preset oval walls included,
\* survives).
C4_WallsRebuilt == [][mapGrid' # mapGrid => WallsFromGrid']_vars

C4_Witness ==
    /\ lastOp.op = "addTrackPiece" /\ lastOp.arg = "oval"
    /\ mapGrid # EmptyGrid
    /\ Len(geomWalls) = 2
    /\ WallsFromGrid

\* C11: in every frame AIAgent.update sends the AI state if and only if the
\* socket is OPEN, returns the held action and leaves it as it was (only a
\* restart in that frame replaces the agent); the action returned is
\* neutral when this agent never received a message.
C11_SendsOnlyWhenOpen ==
    [][FrameRan' =>
          /\ sent' = (readyState = "OPEN")
          /\ aiAction' = latestAction
          /\ lastOp'.arg # "restart" => latestAction' = latestAction
          /\ inbox = << >> => aiAction' = Neutral]_vars

C11_Witness ==
    /\ FrameRan
    /\ readyState = "CONNECTING"
    /\ ~sent
    /\ aiAction = Neutral
    /\ now > 0

\* A parsed value that is an array of exactly 12 arrays of exactly 12 cells.
IsSquare(v) ==
    /\ v.t = "arr" /\ Len(v.a) = 12
    /\ \A y \in 1..Len(v.a) : v.a[y].t = "arr" /\ Len(v.a[y].a) = 12

\* An item of the slot whose text fails to parse or is not a 12 x 12 array.
BadItem(item) ==
    /\ item.present
    /\ ~JSONparse(item.text).ok \/ ~IsSquare(JSONparse(item.text).val)

\* loadTrack has just returned false, leaving an all-empty grid and no
\* wall, rectangle or sensor.
LoadedNothing ==
    /\ lastOp.op = "loadTrack" /\ lastOp.arg = "false"
    /\ mapGrid = EmptyGrid
    /\ geomWalls = << >> /\ wallBodies = << >> /\ finishLine = NoBody

\* C12 as stated: loadTrack with a stored value that fails to parse or is
\* not a 12 x 12 array returns false, removes the slot and leaves an
\* all-empty grid.
C12_BadStoredPurged ==
    (lastOp.op = "loadTrack" /\ BadItem(lastOp.read)) => (LoadedNothing /\ storage = NoItem)

\* C12 as amended: the same for every such stored value except the empty
\* string, which loadTrack treats as no stored map: it returns false and
\* leaves an all-empty grid, and the slot keeps the empty string.
C12_NonEmptyBadStoredPurged ==
    (lastOp.op = "loadTrack" /\ BadItem(lastOp.read)) =>
        /\ LoadedNothing
        /\ storage = IF lastOp.read.text = << >> THEN lastOp.read ELSE NoItem

C12_Witness ==
    /\ lastOp.op = "loadTrack"
    /\ BadItem(lastOp.read) /\ lastOp.read.text # << >>
    /\ JSONparse(lastOp.read.text).ok
    /\ LoadedNothing
    /\ storage = NoItem

\* C13: saveTrack followed by loadTrack returns true, yields the grid that
\* was saved cell for cell and leaves the stored slot as saveTrack wrote
\* it, both when loadTrack runs on the same editor and when it runs on a
\* new editor (the page loaded again right after the save).
C13_SaveLoadRoundTrip ==
    [][/\ lastOp'.op = "saveTrack" =>
              LET same == loadTrack(Ed')
              IN same.ret /\ same.ed.mapGrid = mapGrid /\ same.ed.storage = storage'
       /\ (lastOp.op = "saveTrack" /\ lastOp'.op = "loadTrack") =>
              (lastOp'.arg = "true" /\ mapGrid' = mapGrid /\ storage' = storage)]_vars

C13_Witness ==
    /\ lastOp.op = "loadTrack" /\ lastOp.arg = "true"
    /\ lastOp.read = Item(JSONstringify(mapGrid))
    /\ storage = lastOp.read
    /\ CellAt(mapGrid, 2, 2) = JStr("straight-h")

\* The last step was a drop (addTrackPiece called by handleDrop).
Dropped == lastOp.op = "addTrackPiece"

\* Coordinates given to addTrackPiece that map outside [0, 12) on an axis:
\* cell c takes the coordinates from its centre 100 c + 50 up to the next
\* centre.
MapsOutside(x, y) == x < 50 \/ x >= 1250 \/ y < 50 \/ y >= 1250

\* C14: addTrackPiece with coordinates that map outside the grid on either
\* axis, negative ones included, leaves mapGrid, the wall bodies, the
\* rectangles, the finish-line sensor, the world and the storage unchanged.
C14_OutOfRangeNoChange ==
    [][(Dropped' /\ MapsOutside(lastOp'.x, lastOp'.y)) =>
          UNCHANGED << mapGrid, geomWalls, wallBodies, finishLine, world, storage >>]_vars

C14_Witness ==
    /\ Dropped
    /\ MapsOutside(lastOp.x, lastOp.y)
    /\ lastOp.x < 0
    /\ wallBodies # << >>
    /\ storage.present

\* The cell index whose world interval [100 c, 100 (c + 1)) holds w.
CellOf(w) == CHOOSE c \in 0..11 : 100 * c <= w /\ w < 100 * (c + 1)

InWorld(w) == 0 <= w /\ w < 1200

\* What a cell holds after a piece of the given kind is placed in it.
Placed(kind) == IF kind = "road" THEN JNull ELSE JStr(kind)

\* C15: a drop at a world point inside the world square of an in-range cell
\* sets exactly that cell, to the kind dropped or to empty for 'road',
\* leaves every other cell as it was, and rebuilds the walls from the grid.
C15_DropSetsItsCell ==
    [][(Dropped' /\ InWorld(lastOp'.wx) /\ InWorld(lastOp'.wy)) =>
          /\ \A cy \in 0..11, cx \in 0..11 :
                 CellAt(mapGrid', cy, cx) =
                    IF cx = CellOf(lastOp'.wx) /\ cy = CellOf(lastOp'.wy)
                    THEN Placed(lastOp'.pieceType) ELSE CellAt(mapGrid, cy, cx)
          /\ WallsFromGrid']_vars

C15_Witness ==
    /\ Dropped
    /\ lastOp.wx = 299 /\ lastOp.wy = 250
    /\ lastOp.pieceType = "finish-line-h"
    /\ CellAt(mapGrid, 2, 2) = JStr("finish-line-h")
    /\ finishLine # NoBody

\* The last step dropped a piece other than 'road' at a world point whose x
\* lies on the boundary between two cells of the grid and whose y is in range.
DroppedOnBoundary ==
    /\ Dropped
    /\ lastOp.pieceType # "road"
    /\ lastOp.wx % 100 = 0 /\ lastOp.wx > 0 /\ lastOp.wx < 1200
    /\ InWorld(lastOp.wy)

\* C16 as stated: a piece dropped on the boundary between two adjacent
\* cells is placed in the lower-index of the two.
C16_BoundaryLowerCell ==
    DroppedOnBoundary =>
        CellAt(mapGrid, CellOf(lastOp.wy), lastOp.wx \div 100 - 1) = JStr(lastOp.pieceType)

\* C16 as amended: it is placed in the higher-index of the two, the cell
\* whose world square begins at that coordinate.
C16_BoundaryHigherCell ==
    DroppedOnBoundary =>
        CellAt(mapGrid, CellOf(lastOp.wy), lastOp.wx \div 100) = JStr(lastOp.pieceType)

C16_Witness ==
    /\ DroppedOnBoundary
    /\ lastOp.wx = 200
    /\ CellAt(mapGrid, 2, 2) = JStr("straight-h")
    /\ CellAt(mapGrid, 2, 1) = JNull

\* C17: after any sequence of authoring operations at most one finish-line
\* sensor body exists in the physics world.
C17_AtMostOneSensor == SensorCount <= 1

\* C18: after clearTrack every grid cell is empty, no wall body, rectangle
\* or finish-line sensor remains (in the editor or in the world), and the
\* stored slot is absent.
C18_ClearLeavesNothing ==
    lastOp.op = "clearTrack" =>
        /\ mapGrid = EmptyGrid
        /\ wallBodies = << >> /\ geomWalls = << >> /\ finishLine = NoBody
        /\ world = EmptyBag
        /\ storage = NoItem

\* The wall centred 5 inside one edge of the cell in column cx, row cy: 100
\* long and 10 thick.
SideBody(side, cx, cy) ==
    CASE side = "top" -> Body("wall", 100 * cx + 50, 100 * cy + 5, 100, 10, FALSE)
      [] side = "bottom" -> Body("wall", 100 * cx + 50, 100 * cy + 95, 100, 10, FALSE)
      [] side = "left" -> Body("wall", 100 * cx + 5, 100 * cy + 50, 10, 100, FALSE)
      [] side = "right" -> Body("wall", 100 * cx + 95, 100 * cy + 50, 10, 100, FALSE)

CellBodies(grid, cx, cy) ==
    LET sides == SidesOf(grid.a[cy + 1].a[cx + 1].s)
    IN [i \in 1..Len(sides) |-> SideBody(sides[i], cx, cy)]

\* The wall bodies of all cells of a 12 x 12 grid in row-major order.
TableBodies(grid) ==
    LET row == [cy \in 0..11 |-> Concat([cx \in 0..11 |-> CellBodies(grid, cx, cy)], 0, 11)]
    IN Concat(row, 0, 11)

\* The cells << cy, cx >> of the grid that hold a finish line.
FinishCells(grid) ==
    {p \in (0..11) \X (0..11) :
        grid.a[p[1] + 1].a[p[2] + 1].s \in {"finish-line-h", "finish-line-v"}}

\* The sensor of the last finish-line cell in row-major order, if any.
TableSensor(grid) ==
    IF FinishCells(grid) = {} THEN NoBody
    ELSE LET last == CHOOSE p \in FinishCells(grid) :
                        \A q \in FinishCells(grid) : 12 * q[1] + q[2] <= 12 * p[1] + p[2]
         IN IF grid.a[last[1] + 1].a[last[2] + 1].s = "finish-line-h"
            THEN Body("finishLine", 100 * last[2] + 50, 100 * last[1] + 50, 10, 100, TRUE)
            ELSE Body("finishLine", 100 * last[2] + 50, 100 * last[1] + 50, 100, 10, TRUE)

\* The last step rebuilt the walls from the grid.
Rebuilt ==
    \/ lastOp.op \in {"loadTrack", "clearTrack"}
    \/ Dropped /\ ~MapsOutside(lastOp.x, lastOp.y)

\* C19: a rebuild derives the walls of each cell from its kind by the fixed
\* table, each wall 100 long and 10 thick and centred 5 inside the cell
\* edge, and a finish-line cell also gives the sensor the editor keeps; a
\* grid holding only straight-h at cell (2,2) gives exactly the two walls
\* centred at (250,205) and (250,295) and no sensor.
C19_WallTable ==
    Rebuilt =>
        /\ wallBodies = TableBodies(mapGrid)
        /\ finishLine = TableSensor(mapGrid)
        /\ mapGrid = GridWith(<< 2, 2 >> :> JStr("straight-h")) =>
              /\ wallBodies = << Body("wall", 250, 205, 100, 10, FALSE),
                                 Body("wall", 250, 295, 100, 10, FALSE) >>
              /\ geomWalls = << Rect(200, 200, 100, 10), Rect(200, 290, 100, 10) >>
              /\ finishLine = NoBody

C19_Witness ==
    /\ Rebuilt
    /\ mapGrid = AllKindsGrid
    /\ Len(wallBodies) = 20
    /\ finishLine = Body("finishLine", 1150, 850, 100, 10, TRUE)

\* The last step was a call of castRays.
RaysCast == lastOp.op = "castRays"

\* The directions of the fan, as offsets from the heading in eighths of a
\* turn: front, front-left, front-right, left, right, rear-left, rear-right.
Fan == << 0, 7, 1, 6, 2, 5, 3 >>

\* The points of ray k of the last call, one per whole step.
RayPoints(k) ==
    LET dir == (rayInput.car.rotation + Fan[k]) % 8
        ux == CASE dir \in {7, 0, 1} -> 1 [] dir \in {3, 4, 5} -> -1 [] OTHER -> 0
        uy == CASE dir \in {1, 2, 3} -> 1 [] dir \in {5, 6, 7} -> -1 [] OTHER -> 0
        len == IF ux # 0 /\ uy # 0 THEN 141 ELSE 200
    IN {Pt(rayInput.car.x + ux * n, rayInput.car.y + uy * n) : n \in 0..len}

\* The point lies on the outline of the rectangle with corners (l, t), (r, b).
OnOutline(p, l, t, r, b) ==
    /\ l <= p.x /\ p.x <= r /\ t <= p.y /\ p.y <= b
    /\ p.x \in {l, r} \/ p.y \in {t, b}

\* Ray k of the last call touches no wall and no edge of the other hull.
HitsNothing(k) ==
    \A p \in RayPoints(k) :
        /\ \A i \in 1..Len(geomWalls) :
               ~OnOutline(p, geomWalls[i].x, geomWalls[i].y,
                          geomWalls[i].x + geomWalls[i].width,
                          geomWalls[i].y + geomWalls[i].height)
        /\ \A j \in 1..Len(rayInput.otherPolygons) :
               rayInput.otherPolygons[j] # << >> =>
                   ~OnOutline(p, rayInput.otherPolygons[j][1].x, rayInput.otherPolygons[j][1].y,
                              rayInput.otherPolygons[j][3].x, rayInput.otherPolygons[j][3].y)

\* C20: after castRays every entry of the distances array lies in [0, 1],
\* the 7 entries have been written in the order of the fan, each for its
\* own direction, and an entry is exactly 1 when its ray hits nothing.
C20_DistancesNormalized ==
    RaysCast =>
        /\ Len(rayDistances) = 7
        /\ \A k \in 1..7 :
               /\ rayDistances[k].den2 = 200 * 200
               /\ 0 <= rayDistances[k].num2 /\ rayDistances[k].num2 <= rayDistances[k].den2
               /\ HitsNothing(k) => rayDistances[k].num2 = rayDistances[k].den2
        /\ rayLog = [k \in 1..7 |->
                        [index |-> k - 1, angle |-> (rayInput.car.rotation + Fan[k]) % 8]]

C20_Witness ==
    /\ RaysCast
    /\ rayInput = [car |-> Car(150, 150, 0), otherPolygons |-> << Hull(250, 150) >>]
    /\ rayDistances[1] = [num2 |-> 85 * 85, den2 |-> 40000]
    /\ rayDistances[4] = [num2 |-> 50 * 50, den2 |-> 40000]
    /\ \E k \in 1..7 : HitsNothing(k) /\ rayDistances[k].num2 = 40000

\* The other agent.
OtherCar(c) == IF c = "player" THEN "ai" ELSE "player"

\* C29: a finish-line event of one agent leaves the lap record of the other
\* agent (count, startTime, lastLap, bestLap, armed flag) unchanged, and a
\* collision that does not pair a car with the finish line changes neither.
C29_LapRecordsPerAgent ==
    [][lastOp'.op = "collisionstart" =>
          /\ \A c \in CarTypes :
                 lastOp'.arg = c => lapData'[OtherCar(c)] = lapData[OtherCar(c)]
          /\ lastOp'.arg \notin CarTypes => lapData' = lapData]_vars

C29_Witness ==
    /\ FinishEventFor("player")
    /\ lapData["player"].count = 1
    /\ lapData["player"].lastLap > 0
    /\ lapData["ai"].count = 0
    /\ lapData["ai"].lastLap = 0
    /\ lapData["ai"].canTrigger

\* C30: every completed-lap duration stored in lastLap or bestLap (0 means
\* none stored yet) is at least the 5-second cooldown, in thousandths of a
\* second, scene restarts included.
C30_LapsAtLeastCooldown ==
    \A c \in CarTypes :
        /\ lapData[c].lastLap # 0 => lapData[c].lastLap >= 5000
        /\ lapData[c].bestLap # 0 => lapData[c].bestLap >= 5000

\* The values a cell may hold: empty, or a piece kind of the wall table.
EnumeratedCells ==
    {JNull} \cup {JStr(k) : k \in {"straight-h", "straight-v", "wall-t", "wall-b", "wall-l",
                                   "wall-r", "turn-l", "turn-r", "turn-bl", "turn-br",
                                   "finish-line-h", "finish-line-v"}}

\* C27: after any sequence of authoring, load and import operations every
\* cell of the grid holds empty (null) or one of the enumerated piece kinds.
C27_CellsEnumerated ==
    \A y \in 1..Len(mapGrid.a) : \A x \in 1..Len(mapGrid.a[y].a) :
        mapGrid.a[y].a[x] \in EnumeratedCells

\* The distances array of an agent.
ReadingsOf(c) == IF c = "player" THEN rayDistances ELSE aiRayDistances

\* Ray k of agent c in the last frame: its whole steps, as points.
StepsOf(c, k) ==
    LET dir == (cars[c].rotation + Fan[k]) % 8
        ux == CASE dir \in {7, 0, 1} -> 1 [] dir \in {3, 4, 5} -> -1 [] OTHER -> 0
        uy == CASE dir \in {1, 2, 3} -> 1 [] dir \in {5, 6, 7} -> -1 [] OTHER -> 0
        len == IF ux # 0 /\ uy # 0 THEN 141 ELSE 200
    IN [n \in 0..len |-> [x |-> cars[c].x + ux * n, y |-> cars[c].y + uy * n,
                           ux |-> ux, uy |-> uy, d2 |-> n * n * (ux * ux + uy * uy)]]

\* The point meets a side of the box (l, t)-(r, b) that does not run along
\* the ray.
MeetsBox(p, l, t, r, b) ==
    \/ p.ux # 0 /\ p.x \in {l, r} /\ t <= p.y /\ p.y <= b
    \/ p.uy # 0 /\ p.y \in {t, b} /\ l <= p.x /\ p.x <= r

\* The box of the other agent's hull (30 x 20, or 20 x 30 after a quarter turn).
HullBox(c) ==
    LET o == cars[OtherCar(c)]
        hw == IF o.rotation \in {0, 4} THEN 15 ELSE 10
        hh == IF o.rotation \in {0, 4} THEN 10 ELSE 15
    IN [l |-> o.x - hw, t |-> o.y - hh, r |-> o.x + hw, b |-> o.y + hh]

\* The squared distances from the agent's origin to the points where ray k
\* meets a wall rectangle or an edge of the other agent's hull.
Candidates(c, k) ==
    {StepsOf(c, k)[n].d2 : n \in
        {n \in DOMAIN StepsOf(c, k) :
            \/ \E i \in 1..Len(geomWalls) :
                   MeetsBox(StepsOf(c, k)[n], geomWalls[i].x, geomWalls[i].y,
                            geomWalls[i].x + geomWalls[i].width,
                            geomWalls[i].y + geomWalls[i].height)
            \/ MeetsBox(StepsOf(c, k)[n], HullBox(c).l, HullBox(c).t, HullBox(c).r, HullBox(c).b)}}

LeastOf(S) == CHOOSE d \in S : \A e \in S : d <= e

\* The last step was the raycasting of a frame.
RaycastingRan == lastOp.op = "raycasting"

\* C21: for each ray of each agent the reading is the least distance from
\* the agent's origin to a point where the ray meets a wall rectangle or an
\* edge of the other agent's hull (closing edge included), over RAY_LENGTH;
\* the agent's own hull is no candidate.  Readings are squared here.
C21_ReadingIsNearestHit ==
    RaycastingRan =>
        \A c \in CarTypes : \A k \in 1..7 :
            ReadingsOf(c)[k] =
                [num2 |-> LeastOf(Candidates(c, k) \cup {200 * 200}), den2 |-> 200 * 200]

\* The player at the spawn point heading up the screen, 50 from the wall
\* above, the AI a car's length to its right and heading down: the player's
\* ray 0 reads 50 / 200 and its right ray 40 / 200 (the near side of the
\* AI's hull); the AI's right ray reads 40 / 200 (the player's hull) and
\* its left ray, along the open straight, reads 1.
C21_Witness ==
    /\ RaycastingRan
    /\ cars = [player |-> Car(150, 150, 6), ai |-> Car(200, 150, 2)]
    /\ rayDistances[1] = [num2 |-> 50 * 50, den2 |-> 40000]
    /\ rayDistances[5] = [num2 |-> 40 * 40, den2 |-> 40000]
    /\ aiRayDistances[5] = [num2 |-> 40 * 40, den2 |-> 40000]
    /\ Candidates("ai", 4) = {}
    /\ aiRayDistances[4].num2 = 40000

\* The log holds one more frame than before, the given one, at its end.
GrewBy(frame) == telemetryData' = Append(telemetryData, frame)

\* The step is a frame update that neither exported a file nor restarted.
PlainFrame ==
    lastOp'.op = "update" /\ lastOp'.arg # "restart" /\ download' = [name |-> "", frames |-> << >>]

\* C23: exportTelemetry on an empty log only warns the user (the log stays
\* empty, nothing is downloaded); on a non-empty log it downloads all the
\* frames in append order as one document and leaves the log empty.  The
\* log at the time of the export holds the frame this update appended.
C23_ExportAllOrWarn ==
    [][(lastOp'.op = "update" /\ lastOp'.keyE) =>
          LET recording == isRecording # lastOp'.keySpace
              atExport == IF recording /\ (frameCount + 1) % 3 = 0
                          THEN Append(telemetryData, [frame |-> frameCount + 1, crashed |-> FALSE])
                          ELSE telemetryData
          IN IF atExport = << >>
             THEN alerted' /\ download' = [name |-> "", frames |-> << >>] /\ telemetryData' = << >>
             ELSE /\ ~alerted'
                  /\ download' = [name |-> "telemetry.json", frames |-> atExport]
                  /\ telemetryData' = << >>]_vars

C23_Witness ==
    /\ lastOp.op = "update" /\ lastOp.keyE
    /\ download.name = "telemetry.json"
    /\ download.frames = << [frame |-> 3, crashed |-> FALSE], [frame |-> 3, crashed |-> TRUE],
                            [frame |-> 6, crashed |-> FALSE] >>
    /\ telemetryData = << >>
    /\ ~alerted

\* C24 as stated: no frame is appended while isRecording is false, and
\* while recording the log grows by exactly one frame on each frame update
\* whose frameCount is a multiple of 3 and by none in between.
C24_OnlySubsampledFrames ==
    [][/\ Len(telemetryData') > Len(telemetryData) =>
             /\ lastOp'.op = "update" /\ isRecording' /\ frameCount' % 3 = 0
             /\ GrewBy([frame |-> frameCount', crashed |-> FALSE])
       /\ (PlainFrame /\ isRecording' /\ frameCount' % 3 = 0) =>
             GrewBy([frame |-> frameCount', crashed |-> FALSE])]_vars

\* C24 amended: the log grows only by one frame at a time, either in a
\* frame update that leaves isRecording true and frameCount a multiple of
\* 3, or when the player's car hits a wall while isRecording is true (a
\* frame marked crashed, whatever frameCount is); each such update that
\* does not also export, and each such hit, appends its frame.
C24_SubsampledAndCrashFrames ==
    [][/\ Len(telemetryData') > Len(telemetryData) =>
             \/ /\ lastOp'.op = "update" /\ isRecording' /\ frameCount' % 3 = 0
                /\ GrewBy([frame |-> frameCount', crashed |-> FALSE])
             \/ /\ lastOp' = Op("collisionstart", "crash") /\ isRecording
                /\ GrewBy([frame |-> frameCount, crashed |-> TRUE])
       /\ (PlainFrame /\ isRecording' /\ frameCount' % 3 = 0) =>
             GrewBy([frame |-> frameCount', crashed |-> FALSE])
       /\ (lastOp' = Op("collisionstart", "crash") /\ isRecording) =>
             GrewBy([frame |-> frameCount, crashed |-> TRUE])]_vars

C24_Witness ==
    /\ lastOp = Op("collisionstart", "crash")
    /\ isRecording
    /\ frameCount = 4
    /\ telemetryData = << [frame |-> 3, crashed |-> FALSE], [frame |-> 4, crashed |-> TRUE] >>

\* seq is an initial part of other.
IsPrefix(seq, other) == Len(seq) <= Len(other) /\ SubSeq(other, 1, Len(seq)) = seq

\* C26: frames already appended are never removed or reordered except by
\* a successful export, which empties the log; across frames, recording
\* toggles, crashes and scene restarts.
C26_AppendOnly ==
    [][\/ IsPrefix(telemetryData, telemetryData')
       \/ /\ download' # [name |-> "", frames |-> << >>]
          /\ telemetryData' = << >>]_vars

\* The square of the length of a velocity.
SpeedSquared(v) == v.x * v.x + v.y * v.y

\* new is a positive multiple of old whose length is the cap, to within the
\* last whole pixel per step.
RescaledToCap(old, new) ==
    /\ new.x * old.y = new.y * old.x
    /\ new.x * old.x + new.y * old.y > 0
    /\ 599 * 599 <= SpeedSquared(new) /\ SpeedSquared(new) <= 600 * 600

\* C22: at the end of every frame update the speed of each agent (player
\* car and AI car) is at most MAX_SPEED (600), and a velocity the update
\* changes is rescaled: a positive multiple of the old one with length
\* MAX_SPEED.
C22_SpeedCapped ==
    [][lastOp'.op = "update" =>
          \A c \in CarTypes :
              /\ ~velocity'[c].nan
              /\ SpeedSquared(velocity'[c]) <= 600 * 600
              /\ (lastOp'.arg # "restart" /\ velocity'[c] # velocity[c]) =>
                     RescaledToCap(velocity[c], velocity'[c])]_vars

\* The thrust and angular velocity the gamepad alone asks for, in
\* ten-thousandths: steering beyond 0.1 turns by 0.05 times the stick,
\* gas beyond 0.05 pushes by 0.01 times the trigger, else brake beyond 0.05
\* pulls by half of 0.01 times the trigger.
PadOnly(pad) ==
    [thrust |-> IF pad.gas > 5 THEN pad.gas
                ELSE IF pad.brake > 5 THEN -(pad.brake \div 2) ELSE 0,
     angularVelocity |-> IF pad.steer > 10 \/ pad.steer < -10 THEN 5 * pad.steer ELSE 0]

\* The keyboard mapping: up 0.01, down -0.005, left -0.05, right 0.05.
KeysOnly(keys) ==
    [thrust |-> IF keys.up THEN 100 ELSE IF keys.down THEN -50 ELSE 0,
     angularVelocity |-> IF keys.left THEN -500 ELSE IF keys.right THEN 500 ELSE 0]

\* C25: when a gamepad is connected the player's thrust and angular
\* velocity of a frame are those of the gamepad state alone, whatever the
\* keys are; the keyboard mapping applies only when no gamepad is connected.
C25_GamepadAlone ==
    [][lastOp'.op = "update" =>
          control' = IF padPlugged THEN PadOnly(lastOp'.input.pad)
                     ELSE KeysOnly(lastOp'.input.keys)]_vars

\* The cooldown interval of a note type.
IntervalOf(noteType) ==
    IF noteType = "crash" THEN CRASH_INTERVAL
    ELSE IF noteType = "lapComplete" THEN LAP_INTERVAL
    ELSE MIN_NOTE_INTERVAL

\* C28: for each note type other than 'start', two requests of that type
\* are never both sent to the audio server within that type's cooldown
\* interval of each other (2000 ms for turnLeft and turnRight, 1000 ms for
\* crash, 3000 ms for lapComplete), also when the second is issued while
\* the first is still being fetched or played.
C28_CooldownUnderOverlap ==
    \A i, j \in 1..Len(posted) :
        (/\ i < j
         /\ posted[i].noteType = posted[j].noteType
         /\ posted[i].noteType \in {"turnLeft", "turnRight", "crash", "lapComplete"})
        => posted[j].now - posted[i].now >= IntervalOf(posted[i].noteType)

=============================================================================
